---- MODULE Spec2Model ----
(***************************************************************************)
(* Voice-CRM-Assistant: the field-extraction engine of                     *)
(* src/backend/api/utils.py (DataExtractor) as a state machine.            *)
(*                                                                         *)
(* Texts are TLA+ strings; Len, \o and SubSeq act on them character by     *)
(* character.  Confidences are held in hundredths (0.85 is 85), so that    *)
(* the arithmetic of the code (base + index * increment) stays exact.      *)
(* The alphabet is ASCII: letters, digits, punctuation and the whitespace   *)
(* characters (blank, tab, newline, carriage return, form feed, vertical    *)
(* tab and the separators 0x1c to 0x1f).                                   *)
(***************************************************************************)
EXTENDS Integers, Sequences, FiniteSets, TLC

(***************************************************************************)
(* Python str primitives                                                   *)
(***************************************************************************)
LOWER == "abcdefghijklmnopqrstuvwxyz"
UPPER == "ABCDEFGHIJKLMNOPQRSTUVWXYZ"
DIGITS == "0123456789"

Ch(s, i) == SubSeq(s, i, i)
\* str(d) of a digit
Digit(d) == Ch(DIGITS, d + 1)
\* datetime.isoformat() of the clock reading t, in seconds
isoformat(t) == "1970-01-01T00:00:0" \o Digit(t)
CharsOf(s) == { Ch(s, i) : i \in 1..Len(s) }
LowerSet == CharsOf(LOWER)
UpperSet == CharsOf(UPPER)
DigitSet == CharsOf(DIGITS)
LetterSet == LowerSet \cup UpperSet
\* the ASCII control characters 0x0b and 0x1c to 0x1f
VT == ""
FS == ""
GS == ""
RS == ""
US == ""
\* str.isspace / regex \s: all the ASCII whitespace (a string of the module holds ASCII only)
Whitespace == {" ", "\t", "\n", "\r", "\f", VT, FS, GS, RS, US}
\* regex \w
WordChars == LetterSet \cup DigitSet \cup {"_"}

IndexIn(alphabet, c) == CHOOSE i \in 1..Len(alphabet) : Ch(alphabet, i) = c
LowerChar(c) == IF c \in UpperSet THEN Ch(LOWER, IndexIn(UPPER, c)) ELSE c
UpperChar(c) == IF c \in LowerSet THEN Ch(UPPER, IndexIn(LOWER, c)) ELSE c

Min(S) == CHOOSE x \in S : \A y \in S : x <= y
Max(S) == CHOOSE x \in S : \A y \in S : x >= y

\* The recursions below halve their range, so that their depth is logarithmic
\* in the length of the text.
\* strs[lo] \o ... \o strs[hi]
RECURSIVE ConcatStr(_, _, _)
ConcatStr(strs, lo, hi) ==
    IF lo > hi THEN ""
    ELSE IF lo = hi THEN strs[lo]
    ELSE ConcatStr(strs, lo, (lo + hi) \div 2) \o ConcatStr(strs, (lo + hi) \div 2 + 1, hi)

\* seqs[lo] \o ... \o seqs[hi]
RECURSIVE FlatRange(_, _, _)
FlatRange(seqs, lo, hi) ==
    IF lo > hi THEN <<>>
    ELSE IF lo = hi THEN seqs[lo]
    ELSE FlatRange(seqs, lo, (lo + hi) \div 2) \o FlatRange(seqs, (lo + hi) \div 2 + 1, hi)

\* the least k in lo..hi with test[k], 0 when there is none (lo >= 1); a range of
\* at most 64 positions is searched without recursion
RECURSIVE First(_, _, _)
First(test, lo, hi) ==
    IF hi - lo < 64
    THEN IF \A k \in lo..hi : ~test[k] THEN 0
         ELSE CHOOSE k \in lo..hi : test[k] /\ \A j \in lo..(k - 1) : ~test[j]
    ELSE LET left == First(test, lo, (lo + hi) \div 2)
         IN IF left # 0 THEN left ELSE First(test, (lo + hi) \div 2 + 1, hi)

\* str.lower()
Lower(s) == ConcatStr([i \in 1..Len(s) |-> LowerChar(Ch(s, i))], 1, Len(s))

\* str.strip(): leading and trailing whitespace removed
Strip(s) ==
    LET first == First([i \in 1..Len(s) |-> Ch(s, i) \notin Whitespace], 1, Len(s))
        last == First([i \in 1..Len(s) |-> Ch(s, Len(s) + 1 - i) \notin Whitespace], 1, Len(s))
    IN IF first = 0 THEN "" ELSE SubSeq(s, first, Len(s) + 1 - last)

\* str.title(): a letter is upper-cased unless it follows a letter, and lower-cased then
Title(s) ==
    ConcatStr([i \in 1..Len(s) |-> IF i > 1 /\ Ch(s, i - 1) \in LetterSet
                                   THEN LowerChar(Ch(s, i)) ELSE UpperChar(Ch(s, i))], 1, Len(s))

\* s[i:] starts with sub (1-based i)
StartsAt(s, i, sub) == i + Len(sub) - 1 <= Len(s) /\ SubSeq(s, i, i + Len(sub) - 1) = sub
\* s.find(sub), 1-based, 0 when sub does not occur
Find(s, sub) == First([i \in 1..(Len(s) + 1) |-> StartsAt(s, i, sub)], 1, Len(s) + 1)
\* sub in s
Contains(s, sub) == Find(s, sub) # 0

\* str.replace(old, new): every non-overlapping occurrence, left to right (old non-empty)
RECURSIVE Replace(_, _, _)
Replace(s, old, new) ==
    LET at == Find(s, old)
    IN IF at = 0 THEN s
       ELSE SubSeq(s, 1, at - 1) \o new \o Replace(SubSeq(s, at + Len(old), Len(s)), old, new)

\* str.split(): the maximal runs of non-whitespace characters, in order
Split(s) ==
    LET IsWs(i) == i < 1 \/ i > Len(s) \/ Ch(s, i) \in Whitespace
        IsStart(i) == ~IsWs(i) /\ IsWs(i - 1)
        IsEnd(i) == ~IsWs(i) /\ IsWs(i + 1)
        starts == SelectSeq([i \in 1..Len(s) |-> i], IsStart)
        ends == SelectSeq([i \in 1..Len(s) |-> i], IsEnd)
    IN [k \in 1..Len(starts) |-> SubSeq(s, starts[k], ends[k])]

\* set(str.split())
WordsOf(str) == LET words == Split(str) IN { words[k] : k \in 1..Len(words) }

\* ' '.join(words)
Join(words) ==
    ConcatStr([k \in 1..Len(words) |-> IF k = 1 THEN words[k] ELSE " " \o words[k]], 1, Len(words))

(***************************************************************************)
(* Python re: a backtracking matcher.  Ends(r, s, i) is the sequence of    *)
(* positions at which a match of r that starts at position i of s can end, *)
(* in the order in which the backtracking engine tries them (greedy        *)
(* repetition first, alternatives left to right).  Literals are matched    *)
(* case-insensitively (re.IGNORECASE) and are written in lower case.       *)
(***************************************************************************)
Lit(str) == [t |-> "lit", s |-> str]
Cls(cs) == [t |-> "cls", cs |-> cs, neg |-> FALSE]
NotCls(cs) == [t |-> "cls", cs |-> cs, neg |-> TRUE]
Cat(rs) == [t |-> "cat", rs |-> rs]
Alt(rs) == [t |-> "alt", rs |-> rs]
\* r{lo,hi}
Rep(r, lo, hi) == [t |-> "rep", r |-> r, lo |-> lo, inf |-> FALSE, hi |-> hi]
\* r{lo,}
RepFrom(r, lo) == [t |-> "rep", r |-> r, lo |-> lo, inf |-> TRUE, hi |-> lo]
Plus(r) == RepFrom(r, 1)
Star(r) == RepFrom(r, 0)
Opt(r) == Rep(r, 0, 1)
WordB == [t |-> "wb"]
Empty == Cat(<<>>)

ReSpace == Cls(Whitespace)
ReDigit == Cls(DigitSet)
ReAlpha == Cls(LetterSet)
ReDigitOrSpace == Cls(DigitSet \cup Whitespace)
ReNotComma == NotCls({","})
ReAny == NotCls({"\n"})

IsWordAt(s, i) == i >= 1 /\ i <= Len(s) /\ Ch(s, i) \in WordChars
InCls(r, s, i) == i <= Len(s) /\ ((Ch(s, i) \in r.cs) # r.neg)

AltLits(words) == [k \in 1..Len(words) |-> Lit(words[k])]

\* what matches nothing
Fail == [t |-> "fail"]
\* a match of r to be tried from position i
Try(r, i) == [r |-> r, i |-> i]

\* cls{lo,hi}: the run of characters of the class from i, longest first
EndsClsRep(r, s, i) ==
    LET stop == First([j \in i..(Len(s) + 1) |-> ~InCls(r.r, s, j)], i, Len(s) + 1)
        run == stop - i
        most == IF r.inf \/ run < r.hi THEN run ELSE r.hi
    IN IF most < r.lo THEN <<>> ELSE [k \in 1..(most - r.lo + 1) |-> i + most + 1 - k]

RECURSIVE Ends(_, _, _)

\* the ends of each try, in the order of the tries
EndsOf(tries, s) ==
    FlatRange([k \in 1..Len(tries) |-> Ends(tries[k].r, s, tries[k].i)], 1, Len(tries))

\* what a compound r matches first: the first part, every alternative, one iteration
HeadOf(r, i) ==
    CASE r.t = "cat" -> IF r.rs = <<>> THEN <<>> ELSE <<Try(r.rs[1], i)>>
      [] r.t = "alt" -> [k \in 1..Len(r.rs) |-> Try(r.rs[k], i)]
      [] r.t = "rep" -> IF r.inf \/ r.hi > 0 THEN <<Try(r.r, i)>> ELSE <<>>

\* what remains to be matched after it: the other parts, nothing, the other iterations
RestOf(r) ==
    CASE r.t = "cat" -> Cat(IF r.rs = <<>> THEN <<>> ELSE Tail(r.rs))
      [] r.t = "alt" -> Empty
      [] r.t = "rep" -> [r EXCEPT !.lo = IF @ > 0 THEN @ - 1 ELSE 0, !.hi = IF r.inf THEN @ ELSE @ - 1]

\* the rest from each end of the head; a repetition goes on only from an iteration
\* that consumed something
Continue(r, rest, s, i, mids) ==
    IF rest = Empty THEN mids
    ELSE IF Len(mids) = 1 THEN (IF r.t = "rep" /\ mids[1] <= i THEN <<>> ELSE Ends(rest, s, mids[1]))
    ELSE EndsOf([k \in 1..Len(mids) |->
                    Try(IF r.t = "rep" /\ mids[k] <= i THEN Fail ELSE rest, mids[k])], s)

Ends(r, s, i) ==
    CASE r.t = "lit" -> IF i + Len(r.s) - 1 <= Len(s) /\ Lower(SubSeq(s, i, i + Len(r.s) - 1)) = r.s
                        THEN <<i + Len(r.s)>> ELSE <<>>
      [] r.t = "cls" -> IF InCls(r, s, i) THEN <<i + 1>> ELSE <<>>
      [] r.t = "wb"  -> IF IsWordAt(s, i - 1) # IsWordAt(s, i) THEN <<i>> ELSE <<>>
      [] r.t = "fail" -> <<>>
      [] r.t = "rep" /\ r.r.t = "cls" -> EndsClsRep(r, s, i)
      [] OTHER -> \* greedy: the longer matches first, the empty match last
         Continue(r, RestOf(r), s, i, EndsOf(HeadOf(r, i), s))
         \o (IF (r.t = "cat" /\ r.rs = <<>>) \/ (r.t = "rep" /\ r.lo = 0) THEN <<i>> ELSE <<>>)

NoMatch == [found |-> FALSE, group |-> ""]

\* A pattern with one capturing group, written  pre (grp) post.
Pattern(pre, grp, post) == [pre |-> pre, grp |-> grp, post |-> post]

\* the k-th of the tries, no match when k = 0
Pick(tries, k) == IF k = 0 THEN NoMatch ELSE tries[k]
\* the first of the n tries that found a match
FirstFound(tries, n) == Pick(tries, First([k \in 1..n |-> tries[k].found], 1, n))

\* the group from g1 to the first of the ends g2s, in backtracking order, after which post matches
GroupEnd(p, s, g1, g2s) ==
    FirstFound([k \in 1..Len(g2s) |->
                   [found |-> EndsOf(<<Try(p.post, g2s[k])>>, s) # <<>>,
                    group |-> SubSeq(s, g1, g2s[k] - 1)]], Len(g2s))

\* the first of the group starts g1s, in backtracking order, from which group and post match
GroupStart(p, s, g1s) ==
    FirstFound([k \in 1..Len(g1s) |-> GroupEnd(p, s, g1s[k], EndsOf(<<Try(p.grp, g1s[k])>>, s))],
               Len(g1s))

\* re.match at position i
MatchAt(p, s, i) == GroupStart(p, s, EndsOf(<<Try(p.pre, i)>>, s))

\* re.search(pattern, s, re.IGNORECASE): the leftmost match
Search(p, s) == FirstFound([i \in 1..(Len(s) + 1) |-> MatchAt(p, s, i)], Len(s) + 1)

\* the first match of r at or after from: [at, end], at = 0 when there is none
NextMatch(r, s, from, ends) ==
    LET at == First([i \in from..(Len(s) + 1) |-> ends[i] # <<>>], from, Len(s) + 1)
    IN [at |-> at, end |-> IF at = 0 THEN 0 ELSE Head(ends[at])]

RECURSIVE FindAllFrom(_, _, _)
FindAllNext(r, s, m) ==
    IF m.at = 0 THEN <<>>
    ELSE <<SubSeq(s, m.at, m.end - 1)>> \o FindAllFrom(r, s, IF m.end > m.at THEN m.end ELSE m.at + 1)
\* re.findall(r, s) for a pattern without groups: the matched substrings, left to right
FindAllFrom(r, s, from) ==
    FindAllNext(r, s, NextMatch(r, s, from, [i \in from..(Len(s) + 1) |-> EndsOf(<<Try(r, i)>>, s)]))
FindAll(r, s) == FindAllFrom(r, s, 1)

\* re.sub(r'\s', '', s): the characters of cs removed
RemoveChars(s, cs) ==
    ConcatStr([i \in 1..Len(s) |-> IF Ch(s, i) \in cs THEN "" ELSE Ch(s, i)], 1, Len(s))

\* re.sub(r'\.+$', '', s): the trailing periods removed
StripTrailingPeriods(s) ==
    LET last == First([i \in 1..Len(s) |-> Ch(s, Len(s) + 1 - i) # "."], 1, Len(s))
    IN IF last = 0 THEN "" ELSE SubSeq(s, 1, Len(s) + 1 - last)

(***************************************************************************)
(* DataExtractor._convert_spoken_numbers                                   *)
(***************************************************************************)
number_words == <<"zero", "one", "two", "three", "four", "five", "six", "seven", "eight",
                  "nine", "ten", "eleven", "twelve", "thirteen", "fourteen", "fifteen",
                  "sixteen", "seventeen", "eighteen", "nineteen", "twenty">>
number_digits == <<"0", "1", "2", "3", "4", "5", "6", "7", "8", "9", "10", "11", "12", "13",
                   "14", "15", "16", "17", "18", "19", "20">>
NumberWordSet == { number_words[i] : i \in 1..Len(number_words) }
\* number_map[word]
number_map(word) == number_digits[CHOOSE i \in 1..Len(number_words) : number_words[i] = word]

\* first pass: every whitespace-separated word that is a number word becomes its digits
ConvertWords(words) ==
    [k \in 1..Len(words) |-> IF words[k] \in NumberWordSet THEN number_map(words[k]) ELSE words[k]]
FirstPass(text) == Join(ConvertWords(Split(Lower(text))))

\* r'\b(?:zero|one|...|twenty)\b'
remaining_spoken_re == Cat(<<WordB, Alt(AltLits(number_words)), WordB>>)

\* second pass: for each remaining spoken number, str.replace of every occurrence of it
RECURSIVE ReplaceSpoken(_, _)
ReplaceSpoken(converted_text, remaining_spoken) ==
    IF remaining_spoken = <<>> THEN converted_text
    ELSE ReplaceSpoken(Replace(converted_text, Head(remaining_spoken), number_map(Head(remaining_spoken))),
                       Tail(remaining_spoken))
SecondPass(converted_text) ==
    ReplaceSpoken(converted_text, FindAll(remaining_spoken_re, converted_text))

\* r'(?:\d\s+){4,}\d'
digit_sequences_re == Cat(<<RepFrom(Cat(<<ReDigit, Plus(ReSpace)>>), 4), ReDigit>>)

\* third pass: every found run of spaced digits is replaced by its compact form
RECURSIVE CompactSequences(_, _)
CompactSequences(converted_text, digit_sequences) ==
    IF digit_sequences = <<>> THEN converted_text
    ELSE CompactSequences(Replace(converted_text, Head(digit_sequences),
                                  RemoveChars(Head(digit_sequences), Whitespace)),
                          Tail(digit_sequences))
ThirdPass_skipped(converted_text) == converted_text
ThirdPass(converted_text) ==
    CompactSequences(converted_text, FindAll(digit_sequences_re, converted_text))

_convert_spoken_numbers(text) == ThirdPass(SecondPass(FirstPass(text)))

(***************************************************************************)
(* DataExtractor.__init__: the gazetteer and the locality patterns         *)
(***************************************************************************)
indian_cities == <<
    "mumbai", "delhi", "bangalore", "hyderabad", "chennai", "kolkata", "pune",
    "ahmedabad", "jaipur", "surat", "lucknow", "kanpur", "nagpur", "indore",
    "thane", "bhopal", "visakhapatnam", "pimpri", "patna", "vadodara", "ghaziabad",
    "ludhiana", "agra", "nashik", "faridabad", "meerut", "rajkot", "kalyan",
    "vasai", "varanasi", "srinagar", "aurangabad", "dhanbad", "amritsar",
    "navi mumbai", "allahabad", "ranchi", "howrah", "coimbatore", "jabalpur",
    "gwalior", "vijayawada", "jodhpur", "madurai", "raipur", "kota", "chandigarh",
    "guwahati", "solapur", "hubli", "tiruchirappalli", "bareilly", "mysore",
    "tirupur", "gurgaon", "aligarh", "jalandhar", "bhubaneswar", "salem",
    "mira", "thane", "mathura", "bhiwandi", "saharanpur", "gorakhpur",
    "bikaner", "amravati", "noida", "jamshedpur", "bhilai", "cuttack",
    "firozabad", "kochi", "nellore", "bhavnagar", "tirupati", "kurnool",
    "rajahmundry", "tumkur", "kishanganj", "erode", "bokaro", "south dumdum",
    "bellary", "patiala", "gurgaon", "noida", "faridabad", "ghaziabad" >>

\* [A-Za-z]+\s+(?:w1|w2|...)
WordThen(words) == Cat(<<Plus(ReAlpha), Plus(ReSpace), Alt(AltLits(words))>>)

locality_patterns == <<
    Pattern(Empty, WordThen(<<"layout", "colony", "nagar", "enclave", "park", "garden",
                              "hills", "lake", "circle", "square">>), Empty),
    Pattern(Empty, WordThen(<<"sector", "block", "phase", "zone">>), Empty),
    Pattern(Empty, WordThen(<<"street", "road", "lane", "avenue">>), Empty),
    Pattern(Cat(<<Lit("in"), Plus(ReSpace)>>), WordThen(<<"layout", "colony", "nagar">>), Empty) >>

(***************************************************************************)
(* DataExtractor._extract_with_regex                                       *)
(***************************************************************************)
\* [A-Za-z]+\s+[A-Za-z]+
TwoWords == Cat(<<Plus(ReAlpha), Plus(ReSpace), Plus(ReAlpha)>>)
\* kw1\s+kw2\s+ ...
Keywords(kws) ==
    Cat([i \in 1..(2 * Len(kws)) |-> IF i % 2 = 1 THEN Lit(kws[(i + 1) \div 2]) ELSE Plus(ReSpace)])

name_patterns == <<
    Pattern(Keywords(<<"customer">>), TwoWords, Empty),
    Pattern(Empty, TwoWords, Cat(<<Plus(ReSpace), Lit("called")>>)),
    Pattern(Keywords(<<"spoke", "with">>), TwoWords, Empty),
    Pattern(Keywords(<<"met", "with">>), TwoWords, Empty),
    Pattern(Keywords(<<"called">>), TwoWords, Empty) >>

phone_patterns == <<
    Pattern(Cat(<<Lit("phone"), Plus(ReSpace), Opt(Cat(<<Lit("number"), Plus(ReSpace)>>))>>),
            Rep(ReDigitOrSpace, 10, 15), Empty),
    Pattern(Keywords(<<"number", "is">>), Rep(ReDigitOrSpace, 10, 15), Empty),
    Pattern(Keywords(<<"contact">>), Rep(ReDigitOrSpace, 10, 15), Empty),
    Pattern(Empty, Rep(ReDigit, 10, 10), Empty),
    Pattern(Empty, Rep(ReDigitOrSpace, 10, 10), Empty) >>

address_patterns == <<
    Pattern(Keywords(<<"at">>), Cat(<<Plus(ReDigit), Plus(ReSpace), Plus(ReNotComma)>>), Empty),
    Pattern(Keywords(<<"address", "is">>), Plus(ReNotComma), Empty),
    Pattern(Keywords(<<"located", "at">>), Plus(ReNotComma), Empty),
    Pattern(Empty, Cat(<<Plus(ReNotComma), Plus(ReSpace),
                         Alt(AltLits(<<"street", "road", "lane", "avenue", "sector", "block">>))>>),
            Empty) >>

summary_patterns == <<
    Pattern(Cat(<<Alt(AltLits(<<"discussed", "talked about", "we", "they">>)), Plus(ReSpace)>>),
            Plus(ReAny), Empty),
    Pattern(Cat(<<Alt(AltLits(<<"next steps", "follow up", "meeting", "demo", "pricing",
                                "contract", "agreement">>)), Star(ReSpace)>>),
            Plus(ReAny), Empty),
    Pattern(Cat(<<Alt(AltLits(<<"interested in", "wants to", "needs to", "will">>)), Plus(ReSpace)>>),
            Plus(ReAny), Empty) >>

NoHit == [hit |-> FALSE, i |-> 0, group |-> ""]

\* the k-th try (1-based) as the hit of the loop index i = k - 1 of enumerate
HitAt_unguarded(tries, k) ==
    [hit |-> TRUE, i |-> Max({k - 1, 0}), group |-> IF k = 0 THEN "" ELSE tries[k].group]
HitAt(tries, k) == IF k = 0 THEN NoHit ELSE [hit |-> TRUE, i |-> k - 1, group |-> tries[k].group]
\* the loop  for i, pattern in enumerate(patterns): ...; if <found>: ...; break
\* over tries that are only evaluated until one is found
FirstHit_last(tries, n) ==
    HitAt(tries, Max({0} \cup { k \in 1..n : tries[k].found }))
FirstHit(tries, n) == HitAt(tries, First([k \in 1..n |-> tries[k].found], 1, n))

\* match = re.search(pattern, text, re.IGNORECASE); if match: ... break
Cascade(patterns, text) ==
    FirstHit([k \in 1..Len(patterns) |-> Search(patterns[k], text)], Len(patterns))

\* phone = re.sub(r'\s', '', match.group(1)); if len(phone) >= 10: ... phone[-10:] ... break
PhoneOf_unsliced(phone) ==
    IF Len(phone) >= 10 THEN [found |-> TRUE, group |-> phone] ELSE NoMatch
PhoneOf(phone) ==
    IF Len(phone) >= 10 THEN [found |-> TRUE, group |-> SubSeq(phone, Len(phone) - 9, Len(phone))]
    ELSE NoMatch
PhoneTry(match) == IF match.found THEN PhoneOf(RemoveChars(match.group, Whitespace)) ELSE NoMatch
\* the phone loop: a match ends the loop only if it holds at least 10 digits
PhoneCascade(patterns, text) ==
    FirstHit([k \in 1..Len(patterns) |-> PhoneTry(Search(patterns[k], text))], Len(patterns))

\* confidences, in hundredths: base + i * increment
name_confidence_tenfold(i) == 80 + i * 40
name_confidence(i) == 80 + i * 4
phone_confidence(i) == 90 + i * 2
address_confidence(i) == 70 + i * 5
locality_confidence(i) == 75 + i * 5
summary_confidence(i) == 80 + i * 5
exact_city_confidence == 85

\* for city in self.indian_cities: if city in text_lower: ...; break  (0 when none)
ExactCity_last(text_lower) ==
    Max({0} \cup { k \in 1..Len(indian_cities) : Contains(text_lower, indian_cities[k]) })
ExactCity(text_lower) ==
    First([k \in 1..Len(indian_cities) |-> Contains(text_lower, indian_cities[k])], 1, Len(indian_cities))

\* cities_in_text = [word for word in text_lower.split() if len(word) > 3]
cities_in_text(text_lower) ==
    LET words == Split(text_lower) IN { k \in 1..Len(words) : Len(words[k]) > 3 }

\* The city block.  k is the exact hit (0: none), fuzzy = [best_match, score] the answer of
\* the library call process.extractOne(text_lower, self.indian_cities), used only when it is made.
CityFrom_at80(k, any_long_word, fuzzy) ==
    IF k # 0 THEN [city |-> Title(indian_cities[k]), conf |-> exact_city_confidence, fuzzy_called |-> FALSE]
    ELSE IF any_long_word
         THEN (IF fuzzy.score >= 80
               THEN [city |-> Title(fuzzy.best_match), conf |-> fuzzy.score, fuzzy_called |-> TRUE]
               ELSE [city |-> "", conf |-> 0, fuzzy_called |-> TRUE])
         ELSE [city |-> "", conf |-> 0, fuzzy_called |-> FALSE]
CityFrom(k, any_long_word, fuzzy) ==
    IF k # 0 THEN [city |-> Title(indian_cities[k]), conf |-> exact_city_confidence, fuzzy_called |-> FALSE]
    ELSE IF any_long_word
         THEN (IF fuzzy.score > 80
               THEN [city |-> Title(fuzzy.best_match), conf |-> fuzzy.score, fuzzy_called |-> TRUE]
               ELSE [city |-> "", conf |-> 0, fuzzy_called |-> TRUE])
         ELSE [city |-> "", conf |-> 0, fuzzy_called |-> FALSE]
CityOfLower(text_lower, fuzzy) ==
    CityFrom(ExactCity(text_lower), cities_in_text(text_lower) # {}, fuzzy)
CityOf(text, fuzzy) == CityOfLower(Lower(text), fuzzy)

\* the result dict, from what each block found
RegexResult(name, phone, address, city, locality, summary, now) ==
    [customer |->
       [full_name |-> IF name.hit THEN Strip(name.group) ELSE "",
        phone |-> IF phone.hit THEN phone.group ELSE "",
        address |-> IF address.hit THEN Strip(address.group) ELSE "",
        city |-> city.city,
        locality |-> IF locality.hit THEN Strip(locality.group) ELSE ""],
     interaction |->
       [summary |-> IF summary.hit THEN StripTrailingPeriods(Strip(summary.group)) ELSE "",
        created_at |-> now],
     confidence_scores |->
       [name |-> IF name.hit THEN name_confidence(name.i) ELSE 0,
        phone |-> IF phone.hit THEN phone_confidence(phone.i) ELSE 0,
        address |-> IF address.hit THEN address_confidence(address.i) ELSE 0,
        city |-> city.conf,
        locality |-> IF locality.hit THEN locality_confidence(locality.i) ELSE 0,
        summary |-> IF summary.hit THEN summary_confidence(summary.i) ELSE 0]]

\* the blocks of _extract_with_regex on the converted text
ExtractConverted(text, now, fuzzy) ==
    RegexResult(Cascade(name_patterns, text), PhoneCascade(phone_patterns, text),
                Cascade(address_patterns, text), CityOf(text, fuzzy),
                Cascade(locality_patterns, text), Cascade(summary_patterns, text), now)

_extract_with_regex(raw_text, now, fuzzy) ==
    ExtractConverted(_convert_spoken_numbers(raw_text), now, fuzzy)

(***************************************************************************)
(* ExtractionView.extract_customer_data (api/views.py): the extractor of   *)
(* the API and of EvaluationRunView.  It works on the text as given, with  *)
(* its own city patterns and its own locality patterns, and returns no     *)
(* confidence scores.                                                      *)
(***************************************************************************)
\* in\s+([A-Za-z]+)[,.]   ([A-Za-z]+)\s+city   ([A-Za-z]+)\s+area
view_city_patterns == <<
    Pattern(Cat(<<Lit("in"), Plus(ReSpace)>>), Plus(ReAlpha), Cls({",", "."})),
    Pattern(Empty, Plus(ReAlpha), Cat(<<Plus(ReSpace), Lit("city")>>)),
    Pattern(Empty, Plus(ReAlpha), Cat(<<Plus(ReSpace), Lit("area")>>)) >>

view_locality_patterns == <<
    Pattern(Empty, WordThen(<<"layout", "colony", "nagar", "enclave", "park", "garden",
                              "hills", "lake", "circle", "square">>), Empty),
    Pattern(Empty, WordThen(<<"sector", "block", "phase", "zone">>), Empty),
    Pattern(Cat(<<Lit("in"), Plus(ReSpace)>>), WordThen(<<"layout", "colony", "nagar">>), Empty) >>

\* city = match.group(1).strip().lower(); if city in indian_cities or len(city) > 3: ... break
ViewCityTry(match) ==
    IF match.found /\ (Len(match.group) > 3
                       \/ \E k \in 1..Len(indian_cities) : indian_cities[k] = Lower(Strip(match.group)))
    THEN [found |-> TRUE, group |-> Title(Lower(Strip(match.group)))]
    ELSE NoMatch

\* the pattern loop, then, if it set no city, the first city of the list held by the text
ViewCityFrom(by_pattern, k) ==
    IF by_pattern.hit /\ by_pattern.group # "" THEN by_pattern.group
    ELSE IF k # 0 THEN Title(indian_cities[k]) ELSE ""
ViewCity(text) ==
    ViewCityFrom(FirstHit([k \in 1..Len(view_city_patterns) |-> ViewCityTry(Search(view_city_patterns[k], text))],
                          Len(view_city_patterns)),
                 ExactCity(Lower(text)))

ViewResult(name, phone, address, city, locality, summary, now) ==
    [customer |->
       [full_name |-> IF name.hit THEN Strip(name.group) ELSE "",
        phone |-> IF phone.hit THEN phone.group ELSE "",
        address |-> IF address.hit THEN Strip(address.group) ELSE "",
        city |-> city,
        locality |-> IF locality.hit THEN Strip(locality.group) ELSE ""],
     interaction |->
       [summary |-> IF summary.hit THEN StripTrailingPeriods(Strip(summary.group)) ELSE "",
        created_at |-> now]]

view_extract_customer_data(text, now) ==
    ViewResult(Cascade(name_patterns, text), PhoneCascade(phone_patterns, text),
               Cascade(address_patterns, text), ViewCity(text),
               Cascade(view_locality_patterns, text), Cascade(summary_patterns, text), now)

(***************************************************************************)
(* DataExtractor._extract_with_llm                                         *)
(*                                                                         *)
(* The service is the environment.  A reply is what the call              *)
(* chat.completions.create(...) does: it raises, or it returns a content   *)
(* that is not JSON, or JSON that is no object, or a JSON object.  A JSON  *)
(* value is tagged with its type; a dict is a function of its keys.        *)
(***************************************************************************)
JStr(str) == [ty |-> "str", v |-> str]
JNull == [ty |-> "null", v |-> ""]
JDict(d) == [ty |-> "dict", d |-> d]
JList(items) == [ty |-> "list", v |-> items]
JInt(n) == [ty |-> "int", v |-> n]
JBool(b) == [ty |-> "bool", v |-> b]
\* a float, held in hundredths
JNum(hundredths) == [ty |-> "num", v |-> hundredths]
\* an absent key
KeyMissing == [ty |-> "missing", d |-> <<>>]

\* int, float and bool are numbers: their value in hundredths
IsNumber(x) == x.ty \in {"num", "int", "bool"}
Hundredths(x) ==
    CASE x.ty = "num" -> x.v
      [] x.ty = "int" -> 100 * x.v
      [] x.ty = "bool" -> IF x.v THEN 100 ELSE 0

\* a == b of Python on two JSON values
RECURSIVE PyEq(_, _)
PyEq(a, b) ==
    IF IsNumber(a) /\ IsNumber(b) THEN Hundredths(a) = Hundredths(b)
    ELSE IF a.ty # b.ty THEN FALSE
    ELSE IF a.ty = "list"
         THEN Len(a.v) = Len(b.v) /\ \A k \in 1..Len(a.v) : PyEq(a.v[k], b.v[k])
    ELSE IF a.ty = "dict"
         THEN DOMAIN a.d = DOMAIN b.d /\ \A k \in DOMAIN a.d : PyEq(a.d[k], b.d[k])
    ELSE a = b
None == [none |-> TRUE]

\* the confidences the code attaches to every parsed reply, in hundredths
llm_confidence_scores ==
    [name |-> 95, phone |-> 95, address |-> 85, city |-> 90, locality |-> 85, summary |-> 90]

_extract_with_llm(reply) ==
    IF reply.kind = "object"
    THEN \* llm_result = json.loads(...); llm_result["confidence_scores"] = {...}
         [customer |-> reply.customer, interaction |-> reply.interaction,
          confidence_scores |-> llm_confidence_scores]
    ELSE \* the call raised, json.loads raised, or the item assignment raised: except -> None
         None

(***************************************************************************)
(* DataExtractor._merge_extraction_results                                 *)
(***************************************************************************)
customer_fields == <<"full_name", "phone", "address", "city", "locality">>

Returned(value) == [raised |-> FALSE, exc |-> "", value |-> value]
Raised(exc) == [raised |-> TRUE, exc |-> exc, value |-> None]

\* llm_result.get(section, {}).get(key, "").strip(), for llm_result parsed JSON
LlmValue(llm_result, section, key) ==
    LET sec == llm_result[section]
    IN IF sec.ty = "missing" THEN Returned("")
       ELSE IF sec.ty # "dict" THEN Raised("AttributeError")
       ELSE IF key \notin DOMAIN sec.d THEN Returned("")
       ELSE IF sec.d[key].ty # "str" THEN Raised("AttributeError")
       ELSE Returned(Strip(sec.d[key].v))

\* dict.get(key, 0)
GetOr0(d, key) == IF key \in DOMAIN d THEN d[key] ELSE 0

\* one iteration of the loop over the customer fields
MergeField(regex_result, llm_result, field) ==
    LET llm_value == LlmValue(llm_result, "customer", field)
        regex_value == Strip(regex_result.customer[field])
    IN IF llm_value.raised THEN llm_value
       ELSE IF llm_value.value # "" /\ GetOr0(llm_result.confidence_scores, field) > 80
       THEN \* llm_result["confidence_scores"][field]
            Returned([value |-> llm_value.value, conf |-> llm_result.confidence_scores[field]])
       ELSE IF field \notin DOMAIN regex_result.confidence_scores
       THEN \* regex_result["confidence_scores"][field]
            Raised("KeyError")
       ELSE Returned([value |-> regex_value, conf |-> regex_result.confidence_scores[field]])

MergeSummary(regex_result, llm_result) ==
    LET llm_summary == LlmValue(llm_result, "interaction", "summary")
        regex_summary == Strip(regex_result.interaction.summary)
    IN IF llm_summary.raised THEN llm_summary
       ELSE IF llm_summary.value # "" /\ Len(llm_summary.value) > Len(regex_summary)
       THEN Returned([value |-> llm_summary.value, conf |-> llm_result.confidence_scores.summary])
       ELSE Returned([value |-> regex_summary, conf |-> regex_result.confidence_scores.summary])

_merge_extraction_results(regex_result, llm_result, now) ==
    IF llm_result = None THEN Returned(regex_result)
    ELSE LET f == [k \in 1..Len(customer_fields) |->
                      MergeField(regex_result, llm_result, customer_fields[k])]
             failed == First([k \in 1..Len(customer_fields) |-> f[k].raised], 1, Len(customer_fields))
             summary == MergeSummary(regex_result, llm_result)
         IN IF failed # 0 THEN Raised(f[failed].exc)
            ELSE IF summary.raised THEN summary
            ELSE Returned(
              [customer |-> [full_name |-> f[1].value.value, phone |-> f[2].value.value,
                             address |-> f[3].value.value, city |-> f[4].value.value,
                             locality |-> f[5].value.value],
               interaction |-> [summary |-> summary.value.value, created_at |-> now],
               confidence_scores |-> [full_name |-> f[1].value.conf, phone |-> f[2].value.conf,
                                      address |-> f[3].value.conf, city |-> f[4].value.conf,
                                      locality |-> f[5].value.conf, summary |-> summary.value.conf]])

(***************************************************************************)
(* DataExtractor.extract_customer_data                                     *)
(***************************************************************************)
\* try: result = self._merge_extraction_results(result, llm_result)
\* except Exception: (result keeps the regex result)
MergeOrKeep_uncaught(regex_result, merged) == merged.value
MergeOrKeep(regex_result, merged) == IF merged.raised THEN regex_result ELSE merged.value

\* The whole call, given what the environment answers: the library's fuzzy answer,
\* the service's reply, and the clock at the two places where it is read.
extract_customer_data(text, client, fuzzy, reply, now1, now2) ==
    LET result == _extract_with_regex(text, now1, fuzzy)
    IN IF client
       THEN MergeOrKeep(result, _merge_extraction_results(result, _extract_with_llm(reply), now2))
       ELSE result

(***************************************************************************)
(* The inputs of the model                                                 *)
(***************************************************************************)
MaxDigits == 13
MaxClock == 1

DigitRun(n) == SubSeq("9198765432101234567890", 1, n)
SpacedRun(n) == Join([k \in 1..n |-> Ch(DigitRun(n), k)])

PhoneTexts ==
    { lead \o DigitRun(n) : lead \in {"", "phone ", "Phone number ", "number is ", "contact ", "call "},
                           n \in 9..MaxDigits }
    \cup { lead \o SpacedRun(n) : lead \in {"", "phone "}, n \in {4, 10, MaxDigits} }
    \cup { "phone 123 456 789 call 9876543210", "phone 98765 43210 123", "contact 12345 or 98765 43210",
           "number is nine nine eight eight seven seven six six five five" }

NameTexts ==
    { "customer Amit Verma", "Sarah Johnson called", "spoke with Raj Kumar", "met with Raj Kumar",
      "called Raj Kumar", "customer Amit Verma called Raj", "I met with customer Amit Verma",
      "we spoke with Raj Kumar who called Sarah Johnson" }

AddressTexts ==
    { "stays at 45 Park Street, Salt Lake", "address is MG Road, Pune", "located at Hill View, Delhi",
      "Main Road, Bandra", "address is 12 Main Road", "located at 7 Green Block", "in Shanti Nagar",
      "Phase two Sector five", "Rose Garden Road" }

SummaryTexts ==
    { "We discussed demo and next steps.", "pricing for the premium package.", "interested in a contract",
      "wants to buy", "Demo.", "we ...", "meeting", "they will call", "needs to talk about pricing" }

CityTexts ==
    { "Navi Mumbai", "from kota", "Kolkata or Delhi", "south-dumdum area", "mumbay", "a b c", "pun" }

CorpusTexts ==
    { "I spoke with customer Amit Verma today. His phone number is nine nine eight eight seven seven six six five five. He stays at 45 Park Street, Salt Lake, Kolkata. We discussed demo and next steps.",
      "Customer Sarah Johnson called from 9876543210. She lives at 123 Main Road, Bandra, Mumbai. We talked about pricing options for the premium package.",
      "" }

Texts == PhoneTexts \cup NameTexts \cup AddressTexts \cup SummaryTexts \cup CityTexts \cup CorpusTexts

\* answers of process.extractOne: a gazetteer entry and a score in 0..100
FuzzyAnswers ==
    { [best_match |-> "kota", score |-> sc] : sc \in {45, 80, 81} }
    \cup { [best_match |-> "south dumdum", score |-> 100] }
NoFuzzyCall == [best_match |-> "", score |-> 0]

\* whether the text holds no gazetteer entry, so that the answer of the library matters
NoExactCity(raw_text) == ExactCity(Lower(_convert_spoken_numbers(raw_text))) = 0
\* the answers the library can give for a text: score 0 for a text without characters
FuzzyAnswersFor(raw_text) ==
    IF NoExactCity(raw_text) /\ Strip(raw_text) # "" THEN FuzzyAnswers ELSE {NoFuzzyCall}
\* whether _extract_with_regex reaches the call of process.extractOne on this text
FuzzyCalled(raw_text) == CityOf(_convert_spoken_numbers(raw_text), NoFuzzyCall).fuzzy_called

JCustomer(full_name, phone, address, city, locality) ==
    JDict([full_name |-> JStr(full_name), phone |-> JStr(phone), address |-> JStr(address),
           city |-> JStr(city), locality |-> JStr(locality)])
JInteraction(summary) == JDict([summary |-> JStr(summary)])
Object(customer, interaction) == [kind |-> "object", customer |-> customer, interaction |-> interaction]
Failure(kind) == [kind |-> kind, customer |-> KeyMissing, interaction |-> KeyMissing]

WellFormedReplies ==
    { Object(JCustomer("Amit Verma", "9988776655", "45 Park Street", "Kolkata", "Salt Lake"),
             JInteraction("Discussed the demo, the pricing and the next steps of the contract")),
      Object(JCustomer("", "", "", "", ""), JInteraction("")),
      Object(JCustomer("Amit Verma", "", " 45 Park Street ", "", "Salt Lake"), JInteraction("demo")),
      Object(JCustomer("", "+91 99887 76655", "", "Kolkata", ""), JInteraction("pricing")) }

MalformedReplies ==
    { Object(KeyMissing, KeyMissing),
      Object(JStr("Amit Verma"), JInteraction("demo")),
      Object(JDict([full_name |-> JNull, phone |-> JStr("9988776655")]), JInteraction("demo")),
      Object(JDict([phone |-> JStr("9988776655")]), JList(<<JStr("demo")>>)) }

\* the call raises; the content is not JSON; the content is JSON but no object
FailedReplies == { Failure("raises"), Failure("not_json"), Failure("json_list") }

Replies == WellFormedReplies \cup MalformedReplies \cup FailedReplies

(***************************************************************************)
(* EvaluationManager.compare_results                                       *)
(***************************************************************************)
\* d.get(section, {}).get(key, "").lower().strip()
GetLowerStrip(d, section, key) ==
    LET sec == d[section]
    IN IF sec.ty = "missing" THEN Returned("")
       ELSE IF sec.ty # "dict" THEN Raised("AttributeError")
       ELSE IF key \notin DOMAIN sec.d THEN Returned("")
       ELSE IF sec.d[key].ty # "str" THEN Raised("AttributeError")
       ELSE Returned(Strip(Lower(sec.d[key].v)))

\* for key in ["full_name", "phone", "city", "locality"]
compare_keys == <<"full_name", "phone", "city", "locality">>

\* one iteration of the loop: it raises, it finds a mismatch and breaks, or it goes on
KeyOutcome(actual_val, expected_val) ==
    IF actual_val.raised \/ expected_val.raised THEN "raise"
    ELSE IF actual_val.value # expected_val.value /\ expected_val.value # "" THEN "mismatch"
    ELSE "go on"
KeyOutcomes(actual, expected) ==
    [k \in 1..Len(compare_keys) |->
        KeyOutcome(GetLowerStrip(actual, "customer", compare_keys[k]),
                   GetLowerStrip(expected, "customer", compare_keys[k]))]
\* how the loop ends: "raise", "mismatch", or "go on" when every key went through
LoopEnd(outcomes, k) == IF k = 0 THEN "go on" ELSE outcomes[k]
CustomerLoop(actual, expected) ==
    LoopEnd(KeyOutcomes(actual, expected),
            First([k \in 1..Len(compare_keys) |-> KeyOutcomes(actual, expected)[k] # "go on"],
                  1, Len(compare_keys)))

\* summary_match = actual_summary == expected_summary or expected_summary in actual_summary
summary_match_reversed(actual_summary, expected_summary) ==
    actual_summary = expected_summary \/ Contains(expected_summary, actual_summary)
summary_match(actual_summary, expected_summary) ==
    actual_summary = expected_summary \/ Contains(actual_summary, expected_summary)
\* the summary block; FALSE stands for the return False of the except branch
SummaryBlock(actual_summary, expected_summary) ==
    IF actual_summary.raised \/ expected_summary.raised THEN FALSE
    ELSE summary_match(actual_summary.value, expected_summary.value)

\* compare_results(actual, expected): return False on an exception
compare_results(actual, expected) ==
    IF CustomerLoop(actual, expected) = "raise" THEN FALSE
    ELSE /\ CustomerLoop(actual, expected) # "mismatch"
         /\ SummaryBlock(GetLowerStrip(actual, "interaction", "summary"),
                         GetLowerStrip(expected, "interaction", "summary"))

(***************************************************************************)
(* EvaluationManager.calculate_confidence                                  *)
(*                                                                         *)
(* A confidence is a number of hundredths.  actual is a dict; its entry    *)
(* confidence_scores is a typed value, KeyMissing when the key is          *)
(* absent.                                                                 *)
(***************************************************************************)
\* sum(confidence_scores.values())
RECURSIVE SumOver(_, _)
SumOver(scores, keys) ==
    IF keys = {} THEN 0
    ELSE LET key == CHOOSE k \in keys : TRUE
         IN Hundredths(scores[key]) + SumOver(scores, keys \ {key})

\* round(avg_confidence, 2) of avg_confidence = total / n: the nearest hundredth.  When the
\* quotient lies half way between two hundredths, the binary floating-point value of the
\* quotient, which hundredths do not carry, lies on one side: half_up tells which.
round2(total, n, half_up) ==
    IF 2 * (total % n) < n THEN total \div n
    ELSE IF 2 * (total % n) > n THEN (total \div n) + 1
    ELSE IF half_up THEN (total \div n) + 1 ELSE total \div n

\* the try block of calculate_confidence on the map of actual
AverageOf(confidence_scores, half_up) ==
    IF confidence_scores.ty = "missing" THEN Returned(0)
    ELSE IF confidence_scores.ty # "dict" THEN Raised("AttributeError")
    ELSE IF \E k \in DOMAIN confidence_scores.d : ~IsNumber(confidence_scores.d[k])
         THEN Raised("TypeError")
    ELSE IF DOMAIN confidence_scores.d = {} THEN Raised("ZeroDivisionError")
    ELSE Returned(round2(SumOver(confidence_scores.d, DOMAIN confidence_scores.d),
                         Cardinality(DOMAIN confidence_scores.d), half_up))

\* calculate_confidence(actual, expected): 0.0 on an exception
calculate_confidence_of_expected(actual, expected, half_up) ==
    IF AverageOf(expected.confidence_scores, half_up).raised THEN 0
    ELSE AverageOf(expected.confidence_scores, half_up).value
calculate_confidence(actual, expected, half_up) ==
    IF AverageOf(actual.confidence_scores, half_up).raised THEN 0
    ELSE AverageOf(actual.confidence_scores, half_up).value

(***************************************************************************)
(* EvaluationManager.run_evaluation                                        *)
(*                                                                         *)
(* A test case is a dict with the keys id, input and expected; KeyMissing  *)
(* stands for an absent key.  accuracy is kept as the fraction it is       *)
(* computed from, num / den per cent.                                      *)
(***************************************************************************)
\* the dict extract_customer_data returns, with the types of its values
AsDict(result) ==
    [customer |-> JDict([f \in DOMAIN result.customer |-> JStr(result.customer[f])]),
     interaction |-> JDict([summary |-> JStr(result.interaction.summary), created_at |-> JStr(isoformat(result.interaction.created_at))]),
     confidence_scores |->
        JDict([k \in DOMAIN result.confidence_scores |-> JNum(result.confidence_scores[k])])]

\* test_case["input"][:100] + "..."
InputShown(input) == SubSeq(input, 1, IF Len(input) < 100 THEN Len(input) ELSE 100) \o "..."

\* results.append({...})
Outcome(test_case, extracted, passed, confidence, timestamp) ==
    [id |-> test_case.id, input |-> InputShown(test_case.input), passed |-> passed,
     confidence |-> confidence, timestamp |-> timestamp, extracted |-> extracted,
     expected |-> test_case.expected]

\* if passed: passed_count += 1
Counted_always(passed_count, passed) == passed_count + 1
Counted(passed_count, passed) == IF passed THEN passed_count + 1 ELSE passed_count

\* accuracy = (passed_count / len(self.test_cases)) * 100 and the dict returned
Report(results, passed_count, total) ==
    [results |-> results,
     accuracy |-> [num |-> passed_count * 100, den |-> total],
     total_tests |-> total,
     passed_tests |-> passed_count,
     failed_tests |-> total - passed_count]

\* whether the average of the map of a result lies half way between two hundredths
HalfWay(result) ==
    2 * (SumOver(AsDict(result).confidence_scores.d, DOMAIN result.confidence_scores)
           % Cardinality(DOMAIN result.confidence_scores))
      = Cardinality(DOMAIN result.confidence_scores)

(***************************************************************************)
(* VoiceCRMEvaluator (evaluation/test_runner.py): the client that posts    *)
(* the inputs of its corpus to /api/extract and grades the answers.        *)
(*                                                                         *)
(* The server is the environment.  A response is what                      *)
(* requests.post(...) does: it raises (connection error, timeout), or it   *)
(* returns a status code, a text and what response.json() does with the    *)
(* text.  A decoded body is a typed value.  A score is an exact fraction   *)
(* [num, den]; for these denominators the float comparison with 0.7 and    *)
(* the exact one agree.                                                    *)
(***************************************************************************)
JBody(customer, interaction) == JDict([customer |-> customer, interaction |-> interaction])
JExpected(full_name, phone, address, city, locality, summary, created_at) ==
    JBody(JCustomer(full_name, phone, address, city, locality),
          JDict([summary |-> JStr(summary), created_at |-> JStr(created_at)]))
TestCase(id, input, expected, category) ==
    [id |-> id, input |-> input, expected |-> expected, category |-> category]

load_test_cases == <<
    TestCase(1, "I spoke with customer Amit Verma today. His phone number is nine nine eight eight seven seven six six five five. He stays at 45 Park Street, Salt Lake, Kolkata. We discussed the demo and next steps.",
             JExpected("Amit Verma", "9988776655", "45 Park Street", "Kolkata", "Salt Lake",
                       "Discussed demo and next steps", "2026-01-18T11:30:00Z"),
             "basic_extraction"),
    TestCase(2, "Customer Sarah Johnson called from 9876543210. She lives at 123 Main Road, Bandra, Mumbai. We talked about pricing options for the enterprise plan.",
             JExpected("Sarah Johnson", "9876543210", "123 Main Road", "Mumbai", "Bandra",
                       "Talked about pricing options for the enterprise plan", "2026-01-20T11:00:00Z"),
             "pricing_discussion"),
    TestCase(3, "Met with Rajesh Kumar at his office in HSR Layout, Bangalore. His contact number is eight nine seven six five four three two one zero. We finalized the contract terms.",
             JExpected("Rajesh Kumar", "8976543210", "", "Bangalore", "HSR Layout",
                       "Finalized the contract terms", "2026-01-20T14:30:00Z"),
             "contract_finalization"),
    TestCase(4, "Priya Sharma from Connaught Place, Delhi contacted us. Her phone is seven six five four three two one zero nine eight. She wants a product demonstration next week.",
             JExpected("Priya Sharma", "7654321098", "", "Delhi", "Connaught Place",
                       "Wants a product demonstration next week", "2026-01-20T16:00:00Z"),
             "demo_request"),
    TestCase(5, "Follow-up call with Michael Chen from Sector 15, Noida. Contact: double two three four five six seven eight nine zero. Discussed implementation timeline and training requirements.",
             JExpected("Michael Chen", "2234567890", "", "Noida", "Sector 15",
                       "Discussed implementation timeline and training requirements", "2026-01-20T17:15:00Z"),
             "follow_up_call") >>

\* type(value).__name__
PyType(ty) == CASE ty = "null" -> "NoneType" [] ty = "num" -> "float" [] OTHER -> ty
AttributeError(ty, attr) ==
    Raised("'" \o PyType(ty) \o "' object has no attribute '" \o attr \o "'")

\* d.get(section, {}).get(key, "")
RunnerGet(d, section, key) ==
    IF d.ty # "dict" THEN AttributeError(d.ty, "get")
    ELSE IF section \notin DOMAIN d.d THEN Returned(JStr(""))
    ELSE IF d.d[section].ty # "dict" THEN AttributeError(d.d[section].ty, "get")
    ELSE IF key \notin DOMAIN d.d[section].d THEN Returned(JStr(""))
    ELSE Returned(d.d[section].d[key])
\* .lower()
Lowered(got) ==
    IF got.raised THEN got
    ELSE IF got.value.ty # "str" THEN AttributeError(got.value.ty, "lower")
    ELSE Returned(JStr(Lower(got.value.v)))

\* the reads of compare_results, in the order in which it makes them
RunnerReads(expected, actual) == <<
    Lowered(RunnerGet(expected, "customer", "full_name")), Lowered(RunnerGet(actual, "customer", "full_name")),
    RunnerGet(expected, "customer", "phone"), RunnerGet(actual, "customer", "phone"),
    Lowered(RunnerGet(expected, "customer", "city")), Lowered(RunnerGet(actual, "customer", "city")),
    Lowered(RunnerGet(expected, "customer", "locality")), Lowered(RunnerGet(actual, "customer", "locality")),
    Lowered(RunnerGet(expected, "interaction", "summary")), Lowered(RunnerGet(actual, "interaction", "summary")) >>

Zero == [num |-> 0, den |-> 1]
\* if exp_summary and act_summary: len(common_words) / len(total_words) if total_words else 0.0
SimilarityOf(exp_words, act_words) ==
    IF exp_words \cup act_words = {} THEN Zero
    ELSE [num |-> Cardinality(exp_words \cap act_words), den |-> Cardinality(exp_words \cup act_words)]
summary_similarity(exp_summary, act_summary) ==
    IF exp_summary # "" /\ act_summary # "" THEN SimilarityOf(WordsOf(exp_summary), WordsOf(act_summary))
    ELSE Zero

\* matches = sum([...]); overall_score = (matches + summary_similarity) / 5.0
Matches(flags) == Cardinality({ k \in 1..Len(flags) : flags[k] })
overall_score(matches, similarity) ==
    [num |-> matches * similarity.den + similarity.num, den |-> 5 * similarity.den]

Comparison(name_match, phone_match, city_match, locality_match, similarity) ==
    [name_match |-> name_match, phone_match |-> phone_match, city_match |-> city_match,
     locality_match |-> locality_match, summary_similarity |-> similarity,
     overall_score |-> overall_score(Matches(<<name_match, phone_match, city_match, locality_match>>),
                                     similarity)]

\* compare_results(expected, actual) of the evaluator: the comparison, or the first exception
CompareReads(reads, raised_at) ==
    IF raised_at # 0 THEN Raised(reads[raised_at].exc)
    ELSE Returned(Comparison(reads[1].value = reads[2].value, PyEq(reads[3].value, reads[4].value),
                             reads[5].value = reads[6].value, reads[7].value = reads[8].value,
                             summary_similarity(reads[9].value.v, reads[10].value.v)))
FirstRaised(reads) == First([k \in 1..Len(reads) |-> reads[k].raised], 1, Len(reads))
evaluator_compare_results(expected, actual) ==
    CompareReads(RunnerReads(expected, actual), FirstRaised(RunnerReads(expected, actual)))

\* "passed": comparison["overall_score"] >= 0.7
Passes_above(score) == 10 * score.num > 7 * score.den
Passes(score) == 10 * score.num >= 7 * score.den

TestResultOf(test_case, actual, comparison, passed, confidence, timestamp, error) ==
    [test_id |-> test_case.id, category |-> test_case.category, input |-> test_case.input,
     expected |-> test_case.expected, actual |-> actual, comparison |-> comparison,
     passed |-> passed, confidence |-> confidence, timestamp |-> timestamp, error |-> error]
\* the result of the else branch and of the except branch
Errored(test_case, message, timestamp) ==
    TestResultOf(test_case, None, None, FALSE, Zero, timestamp, JStr(message))
\* the result of the branch of status 200, unless compare_results raises
Graded(test_case, actual, compared, timestamp) ==
    IF compared.raised THEN Errored(test_case, compared.exc, timestamp)
    ELSE TestResultOf(test_case, actual, compared.value, Passes(compared.value.overall_score),
                      compared.value.overall_score, timestamp, JNull)

\* str(response.status_code)
StatusStr(code) == Digit(code \div 100) \o Digit((code \div 10) % 10) \o Digit(code % 10)

RequestRaises(message) == [raises |-> TRUE, status_code |-> 0, text |-> message, json |-> Raised(message)]
Response(status_code, text, json) == [raises |-> FALSE, status_code |-> status_code, text |-> text, json |-> json]

run_single_test(test_case, response, timestamp) ==
    IF response.raises THEN Errored(test_case, response.text, timestamp)
    ELSE IF response.status_code = 200
    THEN (IF response.json.raised THEN Errored(test_case, response.json.exc, timestamp)
          ELSE Graded(test_case, response.json.value,
                      evaluator_compare_results(test_case.expected, response.json.value), timestamp))
    ELSE Errored(test_case, "HTTP " \o StatusStr(response.status_code) \o ": " \o response.text, timestamp)

(***************************************************************************)
(* The state machine: one DataExtractor serving calls of                   *)
(* extract_customer_data, the service answering in between.                *)
(***************************************************************************)
VARIABLES
    openai_client,   \* whether self.openai_client is set (OPENAI_API_KEY at construction)
    now,             \* the clock read by datetime.now()
    pc,              \* "idle", "llm" (the service call is in flight), "done" (the call returned)
    text,            \* the argument of the call
    fuzzy_answer,    \* what process.extractOne answers for this text and the gazetteer
    regex_result,    \* the result of _extract_with_regex
    reply,           \* what the service answered
    llm_result,      \* the result of _extract_with_llm
    merged,          \* how the call of _merge_extraction_results ended
    result,          \* the value extract_customer_data returned
    spoken_text,     \* the argument of a call of _convert_spoken_numbers followed pass by pass
    converted_text,  \* its local variable converted_text
    convert_pc,      \* "idle", "called", "pass1", "pass2", "returned"
    calls,           \* how many calls of _extract_with_regex were made on text in a row
    earlier_result,  \* what the call before the last one returned
    actual,          \* the arguments of a call of compare_results
    expected,
    customer_match,  \* its local variable customer_match
    passed,          \* the value it returned
    compare_pc,      \* "idle", "called", "customer", "returned"
    half_up,         \* on which side of a half-way decimal the float average of actual lies
    scorings,        \* the cases graded on actual: expected, and what compare_results and
                     \* calculate_confidence returned
    self_test_cases, \* self.test_cases of the EvaluationManager
    test_cases,      \* the cases of self.test_cases the loop of run_evaluation has reached
    results,         \* its local variables results, passed_count and extracted
    passed_count,
    extracted,
    case_passed,     \* its local variables passed and confidence
    case_confidence,
    eval_pc,         \* "idle", "loop", "extract" (the extractor is serving the call of line 438),
                     \* "saving" (TestResult.objects.create is in flight), "returned", "raised"
    report,          \* the dict run_evaluation returned
    self_indian_cities,      \* the attributes of the DataExtractor that concurrent calls read
    self_locality_patterns,
    call_pc,         \* per concurrent call: "idle", "begun", "city", "locality", "llm", "done"
    call_text,       \* its argument
    call_fuzzy,      \* the answer of process.extractOne to it
    call_converted,  \* its local variable converted text
    call_result,     \* its local variable result
    call_alone,      \* what the same call returns on an extractor that serves it alone
    runner_pc,       \* run_all_tests of the evaluator: "idle", "loop", "posted", "sleeping", "returned"
    responses,       \* what the server did with each request of the run, in order
    runner_results,  \* its local variable results
    self_test_results,  \* self.test_results of the evaluator
    transcriptions,  \* the rows of table transcriptions of crm_data.db, in the order of their ids
    extracted_data,  \* the rows of table extracted_data, in the order of their ids
    client_pc,       \* per client of the backend: "idle", "transcribed", "typed", "extracted"
    client_text,     \* the text the client got from /api/transcribe or typed, and posts to /api/extract
    client_transcription,  \* the id of the transcriptions row written for the client's upload, if any
    extract_client   \* per row of extracted_data, the client whose request wrote it

extractorVars ==
    <<openai_client, now, pc, text, fuzzy_answer, regex_result, reply, llm_result, merged, result>>
convertVars == <<spoken_text, converted_text, convert_pc>>
twiceVars == <<calls, earlier_result>>
compareVars == <<actual, expected, customer_match, passed, compare_pc>>
scoreVars == <<half_up, scorings>>
evalVars == <<self_test_cases, test_cases, results, passed_count, extracted, case_passed, case_confidence, eval_pc, report>>
callVars == <<self_indian_cities, self_locality_patterns, call_pc, call_text, call_fuzzy,
              call_converted, call_result, call_alone>>
runnerVars == <<runner_pc, responses, runner_results, self_test_results>>
dbVars == <<transcriptions, extracted_data, client_pc, client_text, client_transcription, extract_client>>
clientVars == <<runnerVars, dbVars>>
otherVars == <<scoreVars, evalVars, callVars, clientVars>>
vars == <<extractorVars, convertVars, twiceVars, compareVars, otherVars>>

NotCalled == [raised |-> FALSE, exc |-> "not called", value |-> None]
NoReply == Failure("none")

ConvertIdle ==
    /\ spoken_text = ""
    /\ converted_text = ""
    /\ convert_pc = "idle"

TwiceIdle ==
    /\ calls = 0
    /\ earlier_result = None

NoDict == [customer |-> KeyMissing, interaction |-> KeyMissing]
CompareIdle ==
    /\ actual = NoDict
    /\ expected = NoDict
    /\ customer_match = FALSE
    /\ passed = FALSE
    /\ compare_pc = "idle"

ScoreIdle ==
    /\ half_up = FALSE
    /\ scorings = <<>>

EvalIdle ==
    /\ self_test_cases = <<>>
    /\ test_cases = <<>>
    /\ results = <<>>
    /\ passed_count = 0
    /\ extracted = None
    /\ case_passed = FALSE
    /\ case_confidence = 0
    /\ eval_pc = "idle"
    /\ report = None

CallsIdle ==
    /\ self_indian_cities = <<>>
    /\ self_locality_patterns = <<>>
    /\ call_pc = <<>>
    /\ call_text = <<>>
    /\ call_fuzzy = <<>>
    /\ call_converted = <<>>
    /\ call_result = <<>>
    /\ call_alone = <<>>

RunnerIdle ==
    /\ runner_pc = "idle"
    /\ responses = <<>>
    /\ runner_results = <<>>
    /\ self_test_results = <<>>

DbIdle ==
    /\ transcriptions = <<>>
    /\ extracted_data = <<>>
    /\ client_pc = <<>>
    /\ client_text = <<>>
    /\ client_transcription = <<>>
    /\ extract_client = <<>>

ClientsIdle == RunnerIdle /\ DbIdle

OtherIdle == ScoreIdle /\ EvalIdle /\ CallsIdle /\ ClientsIdle

ExtractorIdle ==
    /\ now = 0
    /\ pc = "idle"
    /\ text = ""
    /\ fuzzy_answer = NoFuzzyCall
    /\ regex_result = None
    /\ reply = NoReply
    /\ llm_result = None
    /\ merged = NotCalled
    /\ result = None

Init ==
    /\ OtherIdle
    /\ ConvertIdle
    /\ TwiceIdle
    /\ CompareIdle
    /\ openai_client \in BOOLEAN
    /\ now = 0
    /\ pc = "idle"
    /\ text = ""
    /\ fuzzy_answer = NoFuzzyCall
    /\ regex_result = None
    /\ reply = NoReply
    /\ llm_result = None
    /\ merged = NotCalled
    /\ result = None

\* extract_customer_data(t) up to the service call, or to its return when no client is set
Begin(t) ==
    /\ pc = "idle"
    /\ \E fuzzy \in FuzzyAnswersFor(t) :
          /\ fuzzy_answer' = fuzzy
          /\ regex_result' = _extract_with_regex(t, now, fuzzy)
    /\ text' = t
    /\ IF openai_client
       THEN pc' = "llm" /\ result' = None
       ELSE pc' = "done" /\ result' = regex_result'

ExtractStart(t) ==
    /\ Begin(t)
    /\ UNCHANGED <<openai_client, now, reply, llm_result, merged, convertVars, twiceVars, compareVars, otherVars>>

\* the service call ends; _extract_with_llm, the merge and the return
LLMResponds(r) ==
    /\ pc = "llm"
    /\ reply' = r
    /\ llm_result' = _extract_with_llm(r)
    /\ merged' = _merge_extraction_results(regex_result, llm_result', now)
    /\ result' = MergeOrKeep(regex_result, merged')
    /\ pc' = "done"
    /\ UNCHANGED <<openai_client, now, text, fuzzy_answer, regex_result, convertVars, twiceVars, compareVars, otherVars>>

\* the caller takes the result; the extractor is ready for the next call
End ==
    /\ pc = "done"
    /\ pc' = "idle"
    /\ text' = ""
    /\ fuzzy_answer' = NoFuzzyCall
    /\ regex_result' = None
    /\ reply' = NoReply
    /\ llm_result' = None
    /\ merged' = NotCalled
    /\ result' = None

Return ==
    /\ End
    /\ UNCHANGED <<openai_client, now, convertVars, twiceVars, compareVars, otherVars>>

\* time passes, up to a bound
TickUpTo(bound) ==
    /\ now < bound
    /\ now' = now + 1
    /\ UNCHANGED <<openai_client, pc, text, fuzzy_answer, regex_result, reply, llm_result, merged, result,
                   convertVars, twiceVars, compareVars, otherVars>>

Tick == TickUpTo(MaxClock)

Next ==
    \/ \E t \in Texts : ExtractStart(t)
    \/ \E r \in Replies : LLMResponds(r)
    \/ Return
    \/ Tick

Spec == Init /\ [][Next]_vars

\* The steps of the extractor itself are taken when they can be.  Nothing in the code ends
\* a service call that is in flight (no timeout is passed to openai.OpenAI or to
\* chat.completions.create), so the step LLMResponds is the service's and has no fairness.
LiveSpec == Init /\ [][Next]_vars /\ WF_vars(Return)

(***************************************************************************)
(* One call of _convert_spoken_numbers, pass by pass, on a text drawn at   *)
(* the start; the extractor stays idle.                                    *)
(***************************************************************************)
\* the words of a digit string, spoken digit by digit: "98" is "nine eight"
SpokenDigits(digits) == Join([k \in 1..Len(digits) |-> number_words[IndexIn(DIGITS, Ch(digits, k))]])

PhoneDigits == {"9988776655", "0123456789", "9876543210", "1111111111", "5000000001"}
SpokenLeads == {"", "His mobile is ", "Call me at\t"}
SpokenTrails == {"", ".", ". Thanks"}
SpokenPhoneTexts ==
    { lead \o SpokenDigits(digits) \o trail :
        lead \in SpokenLeads, digits \in PhoneDigits, trail \in SpokenTrails }
NumberWordTexts ==
    { "six, sixteen.", "four, fourteen", "sixteen.", "Sixteen, twenty; zero!", "ten. eleven. ten.",
      "one two, three", "one\rtwo, three", "one" \o VT \o "two" \o RS \o "three", "twenty-one", "Seventeen", "nine, nineteen and nine" }
DigitRunTexts ==
    { "1 2 3 4", "1 2 3 4 5", "1 2 3 4 5 and 1 2 3 4 5 6", "one two three four", "one two three four five.",
      "45 nine nine eight eight", "room 1 2 3 4 x 5 6 7 8 9 0", "12 34 56 78 90", "1 2\r3\f4 5",
      "1" \o FS \o "2" \o GS \o "3" \o US \o "4 5" }
OtherWordTexts ==
    { "phone number is one.", "content ten.", "Stone Age", "Meet  Amit at Nine.", "fifty lakhs" }
ConvertTexts ==
    SpokenPhoneTexts \cup NumberWordTexts \cup DigitRunTexts \cup OtherWordTexts \cup CorpusTexts

ConvertInit ==
    /\ OtherIdle
    /\ openai_client = FALSE
    /\ ExtractorIdle
    /\ TwiceIdle
    /\ CompareIdle
    /\ spoken_text \in ConvertTexts
    /\ converted_text = ""
    /\ convert_pc = "called"

\* first pass: the words of the lower-cased text, number words replaced, joined by spaces
WordPass ==
    /\ convert_pc = "called"
    /\ converted_text' = FirstPass(spoken_text)
    /\ convert_pc' = "pass1"
    /\ UNCHANGED <<spoken_text, extractorVars, twiceVars, compareVars, otherVars>>

\* second pass: the number words re.findall still finds, replaced by str.replace
SpokenPass ==
    /\ convert_pc = "pass1"
    /\ converted_text' = SecondPass(converted_text)
    /\ convert_pc' = "pass2"
    /\ UNCHANGED <<spoken_text, extractorVars, twiceVars, compareVars, otherVars>>

\* final pass: the digit sequences compacted; return converted_text
DigitPass ==
    /\ convert_pc = "pass2"
    /\ converted_text' = ThirdPass(converted_text)
    /\ convert_pc' = "returned"
    /\ UNCHANGED <<spoken_text, extractorVars, twiceVars, compareVars, otherVars>>

ConvertNext == WordPass \/ SpokenPass \/ DigitPass

ConvertSpec == ConvertInit /\ [][ConvertNext]_vars

(***************************************************************************)
(* _extract_with_regex called twice on one text, the clock running in      *)
(* between.  The library answers a text the same way each time.            *)
(***************************************************************************)
MaxCalls == 2

TwiceInit ==
    /\ OtherIdle
    /\ openai_client = FALSE
    /\ now = 0
    /\ pc = "idle"
    /\ text \in Texts
    /\ fuzzy_answer = NoFuzzyCall
    /\ regex_result = None
    /\ reply = NoReply
    /\ llm_result = None
    /\ merged = NotCalled
    /\ result = None
    /\ ConvertIdle
    /\ TwiceIdle
    /\ CompareIdle

\* one more call of _extract_with_regex(text); the library answers the text at the first
\* call and gives the same answer at every later one
RegexCall ==
    /\ calls < MaxCalls
    /\ calls' = calls + 1
    /\ earlier_result' = regex_result
    /\ \E fuzzy \in (IF calls = 0 THEN FuzzyAnswersFor(text) ELSE {fuzzy_answer}) :
          /\ fuzzy_answer' = fuzzy
          /\ regex_result' = _extract_with_regex(text, now, fuzzy)
    /\ UNCHANGED <<openai_client, now, pc, text, reply, llm_result, merged, result,
                   convertVars, compareVars, otherVars>>

TwiceNext == RegexCall \/ Tick

(***************************************************************************)
(* One call of EvaluationManager.compare_results(actual, expected), the    *)
(* customer loop and then the summary block, on arguments drawn at the     *)
(* start.                                                                  *)
(***************************************************************************)
Dict(customer, summary) == [customer |-> JDict(customer), interaction |-> JDict([summary |-> summary])]

Actuals ==
    { Dict([full_name |-> JStr("amit verma"), phone |-> JStr("9988776655"), address |-> JStr("45 park street"),
            city |-> JStr("Kolkata"), locality |-> JStr("salt lake")], JStr("demo and next steps")),
      Dict([full_name |-> JStr("amit verma"), phone |-> JStr("9988776655"), address |-> JStr("12 main road"),
            city |-> JStr("Kolkata"), locality |-> JStr("salt lake")], JStr("discussed demo and next steps")),
      Dict([full_name |-> JStr(" Amit Verma "), phone |-> JStr("9988776655"), address |-> JStr(""),
            city |-> JStr("Delhi"), locality |-> JStr("")], JStr("We Discussed Demo And Next Steps ")),
      Dict([full_name |-> JStr(""), phone |-> JStr(""), address |-> JStr(""), city |-> JStr(""),
            locality |-> JStr("")], JStr("")),
      Dict([full_name |-> JStr("amit verma"), phone |-> JInt(98765), address |-> JStr("45 park street"),
            city |-> JStr("Kolkata"), locality |-> JStr("salt lake")], JStr("demo")),
      Dict([full_name |-> JStr("raj kumar"), city |-> JStr("Kolkata")], JNull),
      [customer |-> JList(<<>>), interaction |-> JDict([summary |-> JStr("demo")])],
      NoDict }

Expecteds ==
    { Dict([full_name |-> JStr("Amit Verma"), phone |-> JStr("9988776655"), city |-> JStr("Kolkata"),
            locality |-> JStr("Salt Lake")], JStr("discussed demo and next steps")),
      Dict([full_name |-> JStr("Amit Verma"), address |-> JStr("45 Park Street")], JStr("demo")),
      Dict([address |-> JStr("99 Other Street")], JStr("")),
      Dict([city |-> JStr(" KOLKATA")], JStr("next steps")),
      Dict([full_name |-> JStr(""), phone |-> JStr("9988776655"), locality |-> JStr("  ")], JStr("Demo ")),
      Dict([full_name |-> JStr("Amit Verma"), city |-> JNull], JStr("demo")),
      Dict([full_name |-> JStr("Raj Kumar"), phone |-> JInt(98765)], JStr("demo")),
      Dict([locality |-> JStr("salt lake")], JInt(7)),
      [customer |-> JDict(<<>>), interaction |-> KeyMissing],
      NoDict }

CompareInit ==
    /\ OtherIdle
    /\ openai_client = FALSE
    /\ ExtractorIdle
    /\ ConvertIdle
    /\ TwiceIdle
    /\ actual \in Actuals
    /\ expected \in Expecteds
    /\ customer_match = TRUE
    /\ passed = FALSE
    /\ compare_pc = "called"

\* the loop over the customer keys: an exception ends the call with return False
CompareCustomer ==
    /\ compare_pc = "called"
    /\ customer_match' = (CustomerLoop(actual, expected) # "mismatch")
    /\ compare_pc' = IF CustomerLoop(actual, expected) = "raise" THEN "returned" ELSE "customer"
    /\ passed' = FALSE
    /\ UNCHANGED <<actual, expected, extractorVars, convertVars, twiceVars, otherVars>>

\* the summary block and return customer_match and summary_match
CompareSummary ==
    /\ compare_pc = "customer"
    /\ passed' = (customer_match /\ SummaryBlock(GetLowerStrip(actual, "interaction", "summary"),
                                                 GetLowerStrip(expected, "interaction", "summary")))
    /\ compare_pc' = "returned"
    /\ UNCHANGED <<actual, expected, customer_match, extractorVars, convertVars, twiceVars, otherVars>>

CompareNext == CompareCustomer \/ CompareSummary

CompareSpec == CompareInit /\ [][CompareNext]_vars

TwiceSpec == TwiceInit /\ [][TwiceNext]_vars

(***************************************************************************)
(* Calls of EvaluationManager.calculate_confidence on one actual, against  *)
(* one expected value after another.                                       *)
(***************************************************************************)
MaxScorings == 2

Scored(confidence_scores) ==
    [customer |-> JDict(<<>>), interaction |-> JDict(<<>>), confidence_scores |-> confidence_scores]

ScoredDicts ==
    { Scored(JDict([name |-> JNum(90), phone |-> JNum(95), address |-> JNum(0), city |-> JNum(85),
                    locality |-> JNum(80), summary |-> JNum(85)])),
      Scored(JDict([name |-> JNum(80), phone |-> JNum(90), address |-> JNum(95)])),
      Scored(JDict([name |-> JNum(80), phone |-> JNum(90), address |-> JNum(70), city |-> JNum(100)])),
      Scored(JDict([name |-> JNum(85), phone |-> JNum(90)])),
      Scored(JDict([name |-> JNum(0), phone |-> JNum(0)])),
      Scored(JDict([name |-> JInt(1), phone |-> JInt(0)])),
      Scored(JDict([name |-> JBool(TRUE), phone |-> JNum(50)])),
      Scored(JDict([name |-> JNum(90), phone |-> JStr("0.95")])),
      Scored(JDict(<<>>)),
      Scored(JNull),
      Scored(KeyMissing),
      [customer |-> JDict([phone |-> JInt(98765)]), interaction |-> JDict(<<>>),
       confidence_scores |-> KeyMissing] }

ScoreInit ==
    /\ openai_client = FALSE
    /\ ExtractorIdle
    /\ ConvertIdle
    /\ TwiceIdle
    /\ actual \in ScoredDicts
    /\ expected = NoDict
    /\ customer_match = FALSE
    /\ passed = FALSE
    /\ compare_pc = "idle"
    /\ half_up \in BOOLEAN
    /\ scorings = <<>>
    /\ EvalIdle
    /\ CallsIdle
    /\ ClientsIdle

\* passed = compare_results(actual, e); confidence = calculate_confidence(actual, e)
Score(e) ==
    /\ Len(scorings) < MaxScorings
    /\ expected' = e
    /\ scorings' = Append(scorings, [expected |-> e, passed |-> compare_results(actual, e),
                                     value |-> calculate_confidence(actual, e, half_up)])
    /\ UNCHANGED <<actual, customer_match, passed, compare_pc, half_up,
                   extractorVars, convertVars, twiceVars, evalVars, callVars, clientVars>>

ScoreNext == \E e \in ScoredDicts : Score(e)

ScoreSpec == ScoreInit /\ [][ScoreNext]_vars

(***************************************************************************)
(* One call of EvaluationManager.run_evaluation on the corpus that the     *)
(* constructor sets.  The extractor serves the call of each iteration as   *)
(* in the first state machine; the service, the library, the database and  *)
(* the clock are the environment.                                          *)
(***************************************************************************)
\* the second case of the corpus of EvaluationManager.__init__
corpus_case_2 ==
    [id |-> 2,
     input |-> "Customer Sarah Johnson called from 9876543210. She lives at 123 Main Road, Bandra, Mumbai. We talked about pricing options for the premium package.",
     expected |-> Dict([full_name |-> JStr("Sarah Johnson"), phone |-> JStr("9876543210"),
                        city |-> JStr("Mumbai"), locality |-> JStr("Bandra")],
                       JStr("talked about pricing options for the premium package"))]

\* the clock of a run of run_evaluation: far enough for the three readings of an iteration
MaxEvalClock == 2

\* self.test_cases of EvaluationManager.__init__
test_cases_of_init == <<
    [id |-> 1,
     input |-> "I spoke with customer Amit Verma today. His phone number is nine nine eight eight seven seven six six five five. He stays at 45 Park Street, Salt Lake, Kolkata. We discussed demo and next steps.",
     expected |-> Dict([full_name |-> JStr("Amit Verma"), phone |-> JStr("9988776655"),
                        city |-> JStr("Kolkata"), locality |-> JStr("Salt Lake")],
                       JStr("discussed demo and next steps"))],
    corpus_case_2,
    [id |-> 3,
     input |-> "Met with Rajesh Kumar at his office in HSR Layout, Bangalore. His contact number is nine eight seven six five four three two one zero. They want to schedule a product demonstration.",
     expected |-> Dict([full_name |-> JStr("Rajesh Kumar"), phone |-> JStr("9876543210"),
                        city |-> JStr("Bangalore"), locality |-> JStr("HSR Layout")],
                       JStr("want to schedule a product demonstration"))],
    [id |-> 4,
     input |-> "Priya Sharma from Sector 15, Noida called. Her phone is eight eight seven seven six six five five four four. She is interested in the enterprise plan and needs technical specifications.",
     expected |-> Dict([full_name |-> JStr("Priya Sharma"), phone |-> JStr("8877665544"),
                        city |-> JStr("Noida"), locality |-> JStr("Sector 15")],
                       JStr("interested in the enterprise plan and needs technical specifications"))],
    [id |-> 5,
     input |-> "Customer Michael Thomas stays at 789 MG Road, Indiranagar, Bangalore. Contact number is nine nine nine eight eight eight seven seven seven six. We finalized the contract terms.",
     expected |-> Dict([full_name |-> JStr("Michael Thomas"), phone |-> JStr("9998887776"),
                        city |-> JStr("Bangalore"), locality |-> JStr("Indiranagar")],
                       JStr("finalized the contract terms"))] >>

EvalReplies ==
    { Object(JCustomer("Amit Verma", "9988776655", "45 Park Street", "Kolkata", "Salt Lake"),
             JInteraction("Discussed the demo, the pricing and the next steps of the contract")),
      Failure("raises") }

EvalInit ==
    /\ openai_client \in BOOLEAN
    /\ ExtractorIdle
    /\ ConvertIdle
    /\ TwiceIdle
    /\ CompareIdle
    /\ ScoreIdle
    /\ self_test_cases = test_cases_of_init
    /\ test_cases = <<>>
    /\ results = <<>>
    /\ passed_count = 0
    /\ extracted = None
    /\ case_passed = FALSE
    /\ case_confidence = 0
    /\ eval_pc = "loop"
    /\ report = None
    /\ CallsIdle
    /\ ClientsIdle

\* an iteration begins on the next case of the corpus: the call of
\* self.extractor.extract_customer_data(test_case["input"]), up to its service call or,
\* without a client, to its return
EvaluateCase ==
    /\ eval_pc = "loop"
    /\ Len(test_cases) < Len(self_test_cases)
    /\ test_cases' = Append(test_cases, self_test_cases[Len(test_cases) + 1])
    /\ eval_pc' = "extract"
    /\ Begin(self_test_cases[Len(test_cases) + 1].input)
    /\ UNCHANGED <<self_test_cases, results, passed_count, extracted, case_passed, case_confidence, report,
                   openai_client, now, reply, llm_result, merged,
                   convertVars, twiceVars, compareVars, scoreVars, callVars, clientVars>>

\* the call of the extractor returns; the comparison, the scoring and the count.  A case
\* without the key 'expected' raises at the comparison, before anything is counted.
GradeCase ==
    /\ eval_pc = "extract"
    /\ End
    /\ extracted' = result
    /\ IF test_cases[Len(test_cases)].expected = KeyMissing
       THEN /\ eval_pc' = "raised"
            /\ UNCHANGED <<case_passed, case_confidence, passed_count>>
       ELSE /\ eval_pc' = "saving"
            /\ case_passed' = compare_results(AsDict(result), test_cases[Len(test_cases)].expected)
            /\ \E up \in (IF HalfWay(result) THEN BOOLEAN ELSE {FALSE}) :
                  case_confidence' = calculate_confidence(AsDict(result), test_cases[Len(test_cases)].expected, up)
            /\ passed_count' = Counted(passed_count, case_passed')
    /\ UNCHANGED <<self_test_cases, test_cases, results, report, openai_client, now,
                   convertVars, twiceVars, compareVars, scoreVars, callVars, clientVars>>

\* TestResult.objects.create saves the row, stamped with the clock at the save, or raises;
\* then results.append
SaveCase(saved) ==
    /\ eval_pc = "saving"
    /\ IF saved
       THEN /\ eval_pc' = "loop"
            /\ results' = Append(results, Outcome(test_cases[Len(test_cases)], extracted,
                                                  case_passed, case_confidence, now))
       ELSE /\ eval_pc' = "raised"
            /\ results' = results
    /\ UNCHANGED <<self_test_cases, test_cases, passed_count, extracted, case_passed, case_confidence, report,
                   extractorVars, convertVars, twiceVars, compareVars, scoreVars, callVars, clientVars>>

\* the corpus has no further case: accuracy and the return, ZeroDivisionError on no case
EvaluationReturn ==
    /\ eval_pc = "loop"
    /\ Len(test_cases) = Len(self_test_cases)
    /\ IF Len(test_cases) = 0
       THEN eval_pc' = "raised" /\ report' = report
       ELSE eval_pc' = "returned" /\ report' = Report(results, passed_count, Len(test_cases))
    /\ UNCHANGED <<self_test_cases, test_cases, results, passed_count, extracted, case_passed, case_confidence,
                   extractorVars, convertVars, twiceVars, compareVars, scoreVars, callVars, clientVars>>

EvalNext ==
    \/ EvaluateCase
    \/ \E r \in EvalReplies : LLMResponds(r)
    \/ GradeCase
    \/ \E saved \in BOOLEAN : SaveCase(saved)
    \/ EvaluationReturn
    \/ TickUpTo(MaxEvalClock)

EvalSpec == EvalInit /\ [][EvalNext]_vars

(***************************************************************************)
(* Concurrent calls of extract_customer_data on one DataExtractor.  A call *)
(* keeps its text and its result in local variables and reads the          *)
(* attributes indian_cities and locality_patterns of the extractor; calls  *)
(* interleave between the blocks of _extract_with_regex and while the      *)
(* service call is in flight.                                              *)
(***************************************************************************)
MaxCallers == 2
Callers == 1..MaxCallers

CallTexts == { "Salt Lake, Kolkata. We met.", "call 9988776655 in mumbay" }
CallFuzzyAnswers == { [best_match |-> "mumbai", score |-> 91] }

\* for city in self.indian_cities: if city in text_lower, on the attribute as it is now
ExactCityIn(cities, text_lower) ==
    First([k \in 1..Len(cities) |-> Contains(text_lower, cities[k])], 1, Len(cities))
\* the city block on the attribute as it is now
CityIn(cities, k, converted, fuzzy) ==
    IF k # 0 THEN [city |-> Title(cities[k]), conf |-> exact_city_confidence, fuzzy_called |-> FALSE]
    ELSE CityFrom(0, cities_in_text(Lower(converted)) # {}, fuzzy)

\* result["customer"][field] = value; result["confidence_scores"][key] = confidence
WithField(res, field, key, value, confidence) ==
    [res EXCEPT !.customer[field] = value, !.confidence_scores[key] = confidence]

\* the local variable result of call c is bound to a dict of its own
Stored_shared(locals, c, res) == [k \in DOMAIN locals |-> res]
Stored(locals, c, res) == [locals EXCEPT ![c] = res]

ParallelInit ==
    /\ openai_client \in BOOLEAN
    /\ ExtractorIdle
    /\ ConvertIdle
    /\ TwiceIdle
    /\ CompareIdle
    /\ ScoreIdle
    /\ EvalIdle
    /\ self_indian_cities = indian_cities
    /\ self_locality_patterns = locality_patterns
    /\ call_pc = [c \in Callers |-> "idle"]
    /\ call_text = [c \in Callers |-> ""]
    /\ call_fuzzy = [c \in Callers |-> NoFuzzyCall]
    /\ call_converted = [c \in Callers |-> ""]
    /\ call_result = [c \in Callers |-> None]
    /\ call_alone = [c \in Callers |-> None]
    /\ ClientsIdle

\* the call, the conversion, the fresh result and the name, phone and address blocks
CallBegin(c, t) ==
    /\ call_pc[c] = "idle"
    /\ call_pc' = [call_pc EXCEPT ![c] = "begun"]
    /\ call_text' = [call_text EXCEPT ![c] = t]
    /\ call_converted' = [call_converted EXCEPT ![c] = _convert_spoken_numbers(t)]
    /\ call_result' = Stored(call_result, c,
          RegexResult(Cascade(name_patterns, call_converted'[c]),
                      PhoneCascade(phone_patterns, call_converted'[c]),
                      Cascade(address_patterns, call_converted'[c]),
                      [city |-> "", conf |-> 0], NoHit, NoHit, now))
    /\ call_fuzzy' = [call_fuzzy EXCEPT ![c] = NoFuzzyCall]
    /\ call_alone' = [call_alone EXCEPT ![c] = None]
    /\ UNCHANGED <<self_indian_cities, self_locality_patterns,
                   extractorVars, convertVars, twiceVars, compareVars, scoreVars, evalVars, clientVars>>

\* the city block; the library answers when it is called
WithCity(res, hit) == WithField(res, "city", "city", hit.city, hit.conf)
CallCityFound(c, k) ==
    \E fuzzy \in (IF k = 0 THEN CallFuzzyAnswers ELSE {NoFuzzyCall}) :
       /\ call_fuzzy' = [call_fuzzy EXCEPT ![c] = fuzzy]
       /\ call_result' = Stored(call_result, c,
             WithCity(call_result[c], CityIn(self_indian_cities, k, call_converted[c], fuzzy)))
CallCity(c) ==
    /\ call_pc[c] = "begun"
    /\ call_pc' = [call_pc EXCEPT ![c] = "city"]
    /\ CallCityFound(c, ExactCityIn(self_indian_cities, Lower(call_converted[c])))
    /\ UNCHANGED <<self_indian_cities, self_locality_patterns, call_text, call_converted, call_alone,
                   extractorVars, convertVars, twiceVars, compareVars, scoreVars, evalVars, clientVars>>

\* the locality block
WithLocality(res, hit) ==
    WithField(res, "locality", "locality", IF hit.hit THEN Strip(hit.group) ELSE "",
              IF hit.hit THEN locality_confidence(hit.i) ELSE 0)
CallLocality(c) ==
    /\ call_pc[c] = "city"
    /\ call_pc' = [call_pc EXCEPT ![c] = "locality"]
    /\ call_result' = Stored(call_result, c,
          WithLocality(call_result[c], Cascade(self_locality_patterns, call_converted[c])))
    /\ UNCHANGED <<self_indian_cities, self_locality_patterns, call_text, call_fuzzy, call_converted,
                   call_alone, extractorVars, convertVars, twiceVars, compareVars, scoreVars, evalVars, clientVars>>

\* the summary block and the return of _extract_with_regex; without a client the call returns
WithSummary(res, hit) ==
    [res EXCEPT !.interaction.summary = IF hit.hit THEN StripTrailingPeriods(Strip(hit.group)) ELSE "",
                !.confidence_scores.summary = IF hit.hit THEN summary_confidence(hit.i) ELSE 0]
CallSummary(c) ==
    /\ call_pc[c] = "locality"
    /\ call_pc' = [call_pc EXCEPT ![c] = IF openai_client THEN "llm" ELSE "done"]
    /\ call_result' = Stored(call_result, c,
          WithSummary(call_result[c], Cascade(summary_patterns, call_converted[c])))
    /\ call_alone' = [call_alone EXCEPT ![c] =
          IF openai_client THEN None ELSE _extract_with_regex(call_text[c], now, call_fuzzy[c])]
    /\ UNCHANGED <<self_indian_cities, self_locality_patterns, call_text, call_fuzzy, call_converted,
                   extractorVars, convertVars, twiceVars, compareVars, scoreVars, evalVars, clientVars>>

\* the service answers the call; the merge and the return
CallResponds(c, r) ==
    /\ call_pc[c] = "llm"
    /\ call_pc' = [call_pc EXCEPT ![c] = "done"]
    /\ call_result' = Stored(call_result, c,
          MergeOrKeep(call_result[c], _merge_extraction_results(call_result[c], _extract_with_llm(r), now)))
    /\ call_alone' = [call_alone EXCEPT ![c] =
          extract_customer_data(call_text[c], TRUE, call_fuzzy[c], r, now, now)]
    /\ UNCHANGED <<self_indian_cities, self_locality_patterns, call_text, call_fuzzy, call_converted,
                   extractorVars, convertVars, twiceVars, compareVars, scoreVars, evalVars, clientVars>>

\* the caller takes the result
CallReturn(c) ==
    /\ call_pc[c] = "done"
    /\ call_pc' = [call_pc EXCEPT ![c] = "idle"]
    /\ call_text' = [call_text EXCEPT ![c] = ""]
    /\ call_fuzzy' = [call_fuzzy EXCEPT ![c] = NoFuzzyCall]
    /\ call_converted' = [call_converted EXCEPT ![c] = ""]
    /\ call_result' = [call_result EXCEPT ![c] = None]
    /\ call_alone' = [call_alone EXCEPT ![c] = None]
    /\ UNCHANGED <<self_indian_cities, self_locality_patterns,
                   extractorVars, convertVars, twiceVars, compareVars, scoreVars, evalVars, clientVars>>

ParallelNext ==
    \E c \in Callers :
       \/ \E t \in CallTexts : CallBegin(c, t)
       \/ CallCity(c)
       \/ CallLocality(c)
       \/ CallSummary(c)
       \/ \E r \in EvalReplies : CallResponds(c, r)
       \/ CallReturn(c)

ParallelSpec == ParallelInit /\ [][ParallelNext]_vars

(***************************************************************************)
(* VoiceCRMEvaluator.run_all_tests against a server that answers each      *)
(* request in any of the ways below                                        *)
(***************************************************************************)
Fillers == <<"w1", "w2", "w3", "w4", "w5", "w6", "w7", "w8", "w9">>
\* the words of the summary and as many other words
HalfSummary(summary) == Join(Split(summary) \o SubSeq(Fillers, 1, Cardinality(WordsOf(summary))))
\* a body with the expected name, phone and city, no locality and the summary given
PartialBody(customer, summary) ==
    JBody(JDict([full_name |-> customer.full_name, phone |-> customer.phone, address |-> JStr(""),
                 city |-> customer.city, locality |-> JStr("")]),
          JDict([summary |-> JStr(summary)]))
NoJson == Raised("Expecting value: line 1 column 1 (char 0)")

ResponsesTo(test_case) ==
    { RequestRaises("HTTPConnectionPool(host='localhost', port=8000): Read timed out. (read timeout=30)"),
      Response(500, "Internal Server Error", NoJson),
      Response(200, "{...}", Returned(PartialBody(test_case.expected.d.customer.d,
                                                  HalfSummary(Lower(test_case.expected.d.interaction.d.summary.v))))),
      Response(200, "{...}", Returned(PartialBody(test_case.expected.d.customer.d, ""))),
      Response(200, "<html>", NoJson),
      Response(200, "{...}", Returned(JBody(JDict([full_name |-> JNull]), JDict([summary |-> JStr("")])))) }

RunnerInit ==
    /\ openai_client = FALSE
    /\ ExtractorIdle
    /\ ConvertIdle
    /\ TwiceIdle
    /\ CompareIdle
    /\ ScoreIdle
    /\ EvalIdle
    /\ CallsIdle
    /\ RunnerIdle
    /\ DbIdle

\* the seconds that pass in all while requests are in flight
MaxRunnerDelay == 1

\* test_cases = self.load_test_cases(); results = []
RunAllTests ==
    /\ runner_pc = "idle"
    /\ runner_pc' = "loop"
    /\ runner_results' = <<>>
    /\ responses' = <<>>
    /\ UNCHANGED <<self_test_results, extractorVars, convertVars, twiceVars, compareVars,
                   scoreVars, evalVars, callVars, dbVars>>

\* the next iteration, up to requests.post(...): the request is in flight
PostRequest ==
    /\ runner_pc = "loop"
    /\ Len(runner_results) < Len(load_test_cases)
    /\ runner_pc' = "posted"
    /\ UNCHANGED <<responses, runner_results, self_test_results, extractorVars, convertVars, twiceVars,
                   compareVars, scoreVars, evalVars, callVars, dbVars>>

\* time passes while the request is in flight
RunnerTick ==
    /\ runner_pc = "posted"
    /\ TickUpTo(Len(runner_results) + MaxRunnerDelay)

\* the case of the request in flight and the ways in which the request can end
PendingCase == load_test_cases[Len(runner_results) + 1]
PendingResponses == IF runner_pc = "posted" THEN ResponsesTo(PendingCase) ELSE {}

\* what results is once the request in flight has ended with response, the clock read
\* for the timestamp of the result
ResultsWith(response) ==
    Append(runner_results, run_single_test(PendingCase, response, isoformat(now)))
\* the request ends: result = self.run_single_test(test_case); results.append(result)
RunSingleTest(response) ==
    /\ runner_pc = "posted"
    /\ response \in PendingResponses
    /\ responses' = Append(responses, response)
    /\ runner_results' = ResultsWith(response)
    /\ runner_pc' = "sleeping"
    /\ UNCHANGED <<self_test_results, extractorVars, convertVars, twiceVars, compareVars,
                   scoreVars, evalVars, callVars, dbVars>>

\* time.sleep(1): the second after the result has been appended
Sleep ==
    /\ runner_pc = "sleeping"
    /\ now' = now + 1
    /\ runner_pc' = "loop"
    /\ UNCHANGED <<openai_client, pc, text, fuzzy_answer, regex_result, reply,
                   llm_result, merged, result, responses, runner_results, self_test_results,
                   convertVars, twiceVars, compareVars, scoreVars, evalVars, callVars, dbVars>>

\* the loop has ended: self.test_results = results; return results
RunAllReturn ==
    /\ runner_pc = "loop"
    /\ Len(runner_results) = Len(load_test_cases)
    /\ runner_pc' = "returned"
    /\ self_test_results' = runner_results
    /\ UNCHANGED <<responses, runner_results, extractorVars, convertVars, twiceVars,
                   compareVars, scoreVars, evalVars, callVars, dbVars>>

RunnerNext ==
    \/ RunAllTests
    \/ PostRequest
    \/ RunnerTick
    \/ \E response \in PendingResponses : RunSingleTest(response)
    \/ Sleep
    \/ RunAllReturn

RunnerSpec == RunnerInit /\ [][RunnerNext]_vars

(***************************************************************************)
(* The backend (main-simple.py, main.py): /api/transcribe and /api/extract *)
(* over the tables transcriptions and extracted_data of crm_data.db.       *)
(*                                                                         *)
(* Both handlers are coroutines that never await between their statements  *)
(* on the database, and uvicorn.run(app) serves them on one event loop:    *)
(* a request is handled as a whole, and the requests of the clients are    *)
(* handled in any order.  A client uploads a recording and posts the text  *)
(* it got back to /api/extract, or posts a text of its own.  The columns   *)
(* customer_data and interaction_data are computed from request.text       *)
(* alone; a row keeps the text in their place.                             *)
(***************************************************************************)
MaxClients == 3
Clients == 1..MaxClients

SqlInt(n) == JInt(n)
\* what the handlers of /api/transcribe return as the transcription: the mock text of
\* main-simple.py, the fallback text of main.py
TranscribedTexts ==
    { "I spoke with customer Amit Verma today. His phone number is nine nine eight eight seven seven six six five five. He stays at 45 Park Street, Salt Lake, Kolkata. We discussed demo and next steps.",
      "Mock transcription: Customer spoke about product demo and pricing." }
TypedTexts == { "Customer Sarah Johnson called from 9876543210." }
FileOf(c) == "recording" \o Digit(c) \o ".wav"

\* INSERT INTO transcriptions (text, audio_file_path) VALUES (?, ?): id INTEGER PRIMARY KEY AUTOINCREMENT
InsertTranscription(rows, transcription, filename) ==
    Append(rows, [id |-> Len(rows) + 1, text |-> transcription, audio_file_path |-> filename])

\* SELECT id FROM transcriptions ORDER BY id DESC LIMIT 1; trans_id = result[0] if result else None
LatestTranscription(rows, request_text) ==
    IF rows = <<>> THEN JNull ELSE SqlInt(rows[Len(rows)].id)

\* INSERT INTO extracted_data (transcription_id, customer_data, interaction_data, confidence_score)
InsertExtracted(rows, trans_id, request_text) ==
    Append(rows, [id |-> Len(rows) + 1, transcription_id |-> trans_id, extracted_from |-> request_text,
                  confidence_score |-> 85])

DbInit ==
    /\ openai_client = FALSE
    /\ ExtractorIdle
    /\ ConvertIdle
    /\ TwiceIdle
    /\ CompareIdle
    /\ ScoreIdle
    /\ EvalIdle
    /\ CallsIdle
    /\ RunnerIdle
    /\ transcriptions = <<>>
    /\ extracted_data = <<>>
    /\ client_pc = [c \in Clients |-> "idle"]
    /\ client_text = [c \in Clients |-> ""]
    /\ client_transcription = [c \in Clients |-> JNull]
    /\ extract_client = <<>>

\* POST /api/transcribe by client c
transcribe_audio(c, transcription) ==
    /\ client_pc[c] = "idle"
    /\ transcriptions' = InsertTranscription(transcriptions, transcription, FileOf(c))
    /\ client_transcription' = [client_transcription EXCEPT ![c] = SqlInt(Len(transcriptions'))]
    /\ client_text' = [client_text EXCEPT ![c] = transcription]
    /\ client_pc' = [client_pc EXCEPT ![c] = "transcribed"]
    /\ UNCHANGED <<extracted_data, extract_client, extractorVars, convertVars, twiceVars, compareVars,
                   scoreVars, evalVars, callVars, runnerVars>>

\* the client types a text instead of uploading a recording
TypeText(c, typed) ==
    /\ client_pc[c] = "idle"
    /\ client_text' = [client_text EXCEPT ![c] = typed]
    /\ client_pc' = [client_pc EXCEPT ![c] = "typed"]
    /\ UNCHANGED <<transcriptions, extracted_data, client_transcription, extract_client, extractorVars,
                   convertVars, twiceVars, compareVars, scoreVars, evalVars, callVars, runnerVars>>

\* POST /api/extract by client c with request.text = client_text[c]
extract_data(c) ==
    /\ client_pc[c] \in {"transcribed", "typed"}
    /\ extracted_data' = InsertExtracted(extracted_data,
                                         LatestTranscription(transcriptions, client_text[c]), client_text[c])
    /\ extract_client' = Append(extract_client, c)
    /\ client_pc' = [client_pc EXCEPT ![c] = "extracted"]
    /\ UNCHANGED <<transcriptions, client_text, client_transcription, extractorVars, convertVars,
                   twiceVars, compareVars, scoreVars, evalVars, callVars, runnerVars>>

DbNext ==
    \/ \E c \in Clients : \E transcription \in TranscribedTexts : transcribe_audio(c, transcription)
    \/ \E c \in Clients : \E typed \in TypedTexts : TypeText(c, typed)
    \/ \E c \in Clients : extract_data(c)

DbSpec == DbInit /\ [][DbNext]_vars

(***************************************************************************)
(* Properties                                                              *)
(***************************************************************************)
\* the key of the confidence map that a customer field is scored under
ConfKey(field) == IF field = "full_name" THEN "name" ELSE field
\* the confidence a result carries for a field, under either key
ConfOf(res, field) ==
    IF field \in DOMAIN res.confidence_scores THEN res.confidence_scores[field]
    ELSE res.confidence_scores[ConfKey(field)]
CustomerFieldSet == { customer_fields[k] : k \in 1..Len(customer_fields) }
IsTenDigits(str) == Len(str) = 10 /\ \A i \in 1..Len(str) : Ch(str, i) \in DigitSet

\* the value the service gave for a customer field of a well-formed reply, stripped
ReplyValue(field) == Strip(reply.customer.d[field].v)
ReplySummary == Strip(reply.interaction.d.summary.v)

\* C1: the call never ends in an exception of the probabilistic extractor: with no
\* client, with a service call that raises, with a reply that is no JSON of the declared
\* shape, and whenever _extract_with_llm yields None, what extract_customer_data returns
\* is exactly the deterministic result, confidences included.
C1_FallbackIsDeterministic ==
    (pc = "done" /\ (~openai_client \/ reply \in FailedReplies \cup MalformedReplies \/ llm_result = None))
        => result = regex_result
C1_Witness ==
    /\ pc = "done" /\ openai_client
    /\ reply \in MalformedReplies
    /\ merged.raised
    /\ result = regex_result
    /\ result.customer.phone # ""

\* C2 (as claimed): after a well-formed reply, every customer field whose probabilistic
\* value is non-empty (its fixed confidence exceeds 0.8) carries the probabilistic value
\* and the probabilistic confidence in the returned result.
C2_LlmFieldAdopted ==
    (pc = "done" /\ reply \in WellFormedReplies) =>
        \A field \in CustomerFieldSet :
            (ReplyValue(field) # "" /\ llm_confidence_scores[ConfKey(field)] > 80)
                => /\ result.customer[field] = ReplyValue(field)
                   /\ ConfOf(result, field) = llm_confidence_scores[ConfKey(field)]

\* C3 (as claimed): _merge_extraction_results returns a merged result, and in it every
\* customer field whose probabilistic value is empty or whose probabilistic confidence is
\* at most 0.8 has the deterministic value and the deterministic confidence.
C3_MergeKeepsDeterministic ==
    (pc = "done" /\ reply \in WellFormedReplies) =>
        /\ ~merged.raised
        /\ \A field \in CustomerFieldSet :
              (ReplyValue(field) = "" \/ GetOr0(llm_result.confidence_scores, field) <= 80)
                  => /\ merged.value.customer[field] = regex_result.customer[field]
                     /\ ConfOf(merged.value, field) = ConfOf(regex_result, field)

\* C4 (as claimed): after a well-formed reply the returned summary is the probabilistic
\* summary, with confidence 0.90, when that summary is non-empty and strictly longer than
\* the deterministic one, and the deterministic summary with its confidence otherwise.
C4_LongerSummaryAdopted ==
    (pc = "done" /\ reply \in WellFormedReplies) =>
        IF ReplySummary # "" /\ Len(ReplySummary) > Len(regex_result.interaction.summary)
        THEN /\ result.interaction.summary = ReplySummary
             /\ result.confidence_scores.summary = llm_confidence_scores.summary
        ELSE /\ result.interaction.summary = regex_result.interaction.summary
             /\ result.confidence_scores.summary = regex_result.confidence_scores.summary

\* C5: every value of the confidence map of every result, deterministic or returned,
\* lies in [0.0, 1.0] (0..100 hundredths).
InUnitInterval(scores) == \A key \in DOMAIN scores : scores[key] >= 0 /\ scores[key] <= 100
C5_ConfidenceBounds ==
    /\ pc # "idle" => InUnitInterval(regex_result.confidence_scores)
    /\ pc = "done" => InUnitInterval(result.confidence_scores)
C5_Witness ==
    /\ pc = "done"
    /\ result.confidence_scores.city = 100
    /\ result.confidence_scores.name = 0

\* C6: the phone of every returned result is the empty string or exactly 10 digits.
C6_PhoneShape ==
    pc = "done" => (result.customer.phone = "" \/ IsTenDigits(result.customer.phone))
C6_Witness ==
    /\ pc = "done"
    /\ text = "Phone number " \o DigitRun(MaxDigits)
    /\ IsTenDigits(result.customer.phone)
    /\ reply \in WellFormedReplies /\ ~IsTenDigits(ReplyValue("phone")) /\ ReplyValue("phone") # ""

\* the text the cascades of the deterministic extraction run on
Converted == _convert_spoken_numbers(text)
\* the deterministic extraction has just produced regex_result from text (both stay as
\* they are until the call returns)
Extracted == pc = "llm" \/ (pc = "done" /\ ~openai_client)

\* the maximal runs of digits, whitespace between the digits allowed, as digit strings
ReDigitRun == Cat(<<ReDigit, Star(Cat(<<Star(ReSpace), ReDigit>>))>>)
DigitRunsOf(str) ==
    LET runs == FindAll(ReDigitRun, str)
    IN { RemoveChars(runs[k], Whitespace) : k \in 1..Len(runs) }
LongDigitRuns(str) == { run \in DigitRunsOf(str) : Len(run) >= 10 }
Last10(run) == SubSeq(run, Len(run) - 9, Len(run))

\* C7 (as claimed): when the input text holds a run of at least 10 digits (whitespace
\* between the digits ignored), the phone of the deterministic result is empty or exactly
\* the last 10 digits of such a run.
C7_PhoneIsLastTenOfRun ==
    (Extracted /\ LongDigitRuns(text) # {}) =>
        \/ regex_result.customer.phone = ""
        \/ \E run \in LongDigitRuns(text) : regex_result.customer.phone = Last10(run)

\* the patterns of a cascade (1-based) that re.search finds in the text
Matching(patterns, str) == { k \in 1..Len(patterns) : Search(patterns[k], str).found }
\* the phone patterns whose match holds at least 10 digits once whitespace is removed
Validating(patterns, str) ==
    { k \in Matching(patterns, str) :
        Len(RemoveChars(Search(patterns[k], str).group, Whitespace)) >= 10 }
Lowest(ks) == IF ks = {} THEN 0 ELSE CHOOSE k \in ks : \A j \in ks : k <= j

\* value and confidence are those of pattern k (0: no pattern, empty value, confidence 0.0)
DecidedName(k, str) ==
    /\ regex_result.customer.full_name = (IF k = 0 THEN "" ELSE Strip(Search(name_patterns[k], str).group))
    /\ regex_result.confidence_scores.name = (IF k = 0 THEN 0 ELSE 80 + (k - 1) * 4)
LastUpTo10(digits) == SubSeq(digits, Max({1, Len(digits) - 9}), Len(digits))
DecidedPhone(k, str) ==
    /\ regex_result.customer.phone =
          (IF k = 0 THEN ""
           ELSE LastUpTo10(RemoveChars(Search(phone_patterns[k], str).group, Whitespace)))
    /\ regex_result.confidence_scores.phone = (IF k = 0 THEN 0 ELSE 90 + (k - 1) * 2)
DecidedAddress(k, str) ==
    /\ regex_result.customer.address = (IF k = 0 THEN "" ELSE Strip(Search(address_patterns[k], str).group))
    /\ regex_result.confidence_scores.address = (IF k = 0 THEN 0 ELSE 70 + (k - 1) * 5)
DecidedLocality(k, str) ==
    /\ regex_result.customer.locality = (IF k = 0 THEN "" ELSE Strip(Search(locality_patterns[k], str).group))
    /\ regex_result.confidence_scores.locality = (IF k = 0 THEN 0 ELSE 75 + (k - 1) * 5)
DecidedSummary(k, str) ==
    /\ regex_result.interaction.summary =
          (IF k = 0 THEN "" ELSE StripTrailingPeriods(Strip(Search(summary_patterns[k], str).group)))
    /\ regex_result.confidence_scores.summary = (IF k = 0 THEN 0 ELSE 80 + (k - 1) * 5)
DecidedOthers(str) ==
    /\ DecidedName(Lowest(Matching(name_patterns, str)), str)
    /\ DecidedAddress(Lowest(Matching(address_patterns, str)), str)
    /\ DecidedLocality(Lowest(Matching(locality_patterns, str)), str)
    /\ DecidedSummary(Lowest(Matching(summary_patterns, str)), str)

\* C8 (as claimed): in each of the five cascades the value and the confidence of the field
\* are decided by the lowest-index pattern that matches the text.
C8_FirstMatchDecides ==
    Extracted =>
        /\ DecidedOthers(Converted)
        /\ DecidedPhone(Lowest(Matching(phone_patterns, Converted)), Converted)

\* C8 (amended): name, address, locality and summary are decided by the lowest-index pattern
\* that matches; the phone is decided by the lowest-index pattern whose match holds at least
\* 10 digits once whitespace is removed, a match with fewer digits being passed over.
C8_FirstValidMatchDecides ==
    Extracted =>
        /\ DecidedOthers(Converted)
        /\ DecidedPhone(Lowest(Validating(phone_patterns, Converted)), Converted)
C8_Witness ==
    /\ Extracted
    /\ text = "phone 123 456 789 call 9876543210"
    /\ 1 \in Matching(phone_patterns, Converted) \ Validating(phone_patterns, Converted)
    /\ Lowest(Validating(phone_patterns, Converted)) = 4
    /\ regex_result.customer.phone = "9876543210"
    /\ regex_result.confidence_scores.phone = 96

\* the confidence of a cascade for the loop index i
CascadeConfidence(cascade, i) ==
    CASE cascade = "name" -> name_confidence(i)
      [] cascade = "phone" -> phone_confidence(i)
      [] cascade = "address" -> address_confidence(i)
      [] cascade = "locality" -> locality_confidence(i)
      [] cascade = "summary" -> summary_confidence(i)
CascadePatterns(cascade) ==
    CASE cascade = "name" -> name_patterns
      [] cascade = "phone" -> phone_patterns
      [] cascade = "address" -> address_patterns
      [] cascade = "locality" -> locality_patterns
      [] cascade = "summary" -> summary_patterns
CascadeNames == {"name", "phone", "address", "locality", "summary"}

\* C9 (as claimed): in each cascade, the confidence a field was given by the pattern that
\* decided it is lower than the confidence every earlier pattern of the cascade assigns.
C9_EarlierPatternHigher ==
    Extracted =>
        \A cascade \in CascadeNames :
            \A j \in 1..(Len(CascadePatterns(cascade)) - 1) :
                regex_result.confidence_scores[cascade] = CascadeConfidence(cascade, j)
                    => \A i \in 0..(j - 1) :
                          CascadeConfidence(cascade, i) > regex_result.confidence_scores[cascade]

\* C10 (as claimed): in the deterministic result, a field whose value is the empty string
\* has confidence 0.0.
C10_EmptyMeansZero ==
    Extracted =>
        /\ \A field \in CustomerFieldSet :
              regex_result.customer[field] = "" => regex_result.confidence_scores[ConfKey(field)] = 0
        /\ regex_result.interaction.summary = "" => regex_result.confidence_scores.summary = 0

\* str.istitle for the words of a text: every letter that starts a run of letters is upper
\* case, every other letter is lower case
IsTitleCased(str) ==
    \A i \in 1..Len(str) :
        Ch(str, i) \in LetterSet =>
            IF i = 1 \/ Ch(str, Max({1, i - 1})) \notin LetterSet
            THEN Ch(str, i) \in UpperSet
            ELSE Ch(str, i) \in LowerSet

\* C11 (as claimed): in the deterministic result a non-empty city and a non-empty locality
\* are title-cased, whatever the casing of the input text.
C11_CityLocalityTitleCased ==
    Extracted =>
        /\ regex_result.customer.city # "" => IsTitleCased(regex_result.customer.city)
        /\ regex_result.customer.locality # "" => IsTitleCased(regex_result.customer.locality)

\* the gazetteer entries (1-based) that occur as a substring of the lower-cased text
Occurring(text_lower) == { k \in 1..Len(indian_cities) : Contains(text_lower, indian_cities[k]) }

\* C12: when at least one gazetteer entry occurs in the lower-cased text, the city is the
\* title-cased form of the occurring entry that comes first in the gazetteer, and its
\* confidence is exactly 0.85.
C12_FirstGazetteerEntryWins ==
    (Extracted /\ Occurring(Lower(Converted)) # {}) =>
        /\ regex_result.customer.city = Title(indian_cities[Lowest(Occurring(Lower(Converted)))])
        /\ regex_result.confidence_scores.city = 85
C12_Witness ==
    /\ Extracted
    /\ text = "Navi Mumbai"
    /\ Occurring(Lower(Converted)) = {1, 35}
    /\ regex_result.customer.city = "Mumbai"
    /\ regex_result.confidence_scores.city = 85

\* the city the library's answer stands for: its best-scoring entry if the score exceeds 80
FuzzyCityDecides ==
    IF fuzzy_answer.score > 80
    THEN /\ regex_result.customer.city = Title(fuzzy_answer.best_match)
         /\ regex_result.confidence_scores.city = fuzzy_answer.score
    ELSE /\ regex_result.customer.city = ""
         /\ regex_result.confidence_scores.city = 0
\* the lower-cased text has a whitespace-separated word of more than 3 characters
HasLongWord(text_lower) == \E k \in 1..Len(Split(text_lower)) : Len(Split(text_lower)[k]) > 3

\* C13 (as claimed): whenever no gazetteer entry is a substring of the text, the city is the
\* best-scoring entry of the fuzzy match (title-cased, confidence score/100) if and only if
\* its score exceeds 80, and is otherwise empty with confidence 0.0.
C13_FuzzyWheneverNoExactHit ==
    (Extracted /\ Occurring(Lower(Converted)) = {}) => FuzzyCityDecides

\* C13 (amended): the fuzzy match is made only when no gazetteer entry is a substring of the
\* text and the text has a word of more than 3 characters; then the city is the best-scoring
\* entry if and only if its score exceeds 80.  With no such word no fuzzy match is made and
\* the city is empty with confidence 0.0, whatever the library would have scored.
C13_FuzzyOnlyWithLongWord ==
    (Extracted /\ Occurring(Lower(Converted)) = {}) =>
        IF HasLongWord(Lower(Converted))
        THEN FuzzyCityDecides
        ELSE regex_result.customer.city = "" /\ regex_result.confidence_scores.city = 0
C13_Witness ==
    /\ Extracted
    /\ text = "mumbay"
    /\ Occurring(Lower(Converted)) = {}
    /\ fuzzy_answer = [best_match |-> "kota", score |-> 81]
    /\ regex_result.customer.city = "Kota"
    /\ regex_result.confidence_scores.city = 81

\* the call of _convert_spoken_numbers has returned converted_text for spoken_text
Converted_returned == convert_pc = "returned"
\* a lead as it stands in front of the digits: lower case, single spaces
LeadBefore(lead) == IF Split(lead) = <<>> THEN "" ELSE Join(Split(Lower(lead))) \o " "

\* C14: a phone number spoken digit by digit, ten whitespace-separated words from zero..nine,
\* also with a period after the last word, comes out of _convert_spoken_numbers as the
\* contiguous string of its ten digits.
C14_SpokenPhoneIsCompacted ==
    Converted_returned =>
        \A lead \in SpokenLeads, digits \in PhoneDigits, trail \in SpokenTrails :
            spoken_text = lead \o SpokenDigits(digits) \o trail
                => converted_text = LeadBefore(lead) \o digits \o Lower(trail)
C14_Witness ==
    /\ Converted_returned
    /\ spoken_text = "nine nine eight eight seven seven six six five five."
    /\ converted_text = "9988776655."

\* every whole-word occurrence of a number word, from position from on, replaced by its
\* digit string (re.sub of \b(?:zero|...|twenty)\b with the digits of the match)
RECURSIVE WholeWordsFrom(_, _)
WholeWordsNext(str, from, m) ==
    IF m.at = 0 THEN SubSeq(str, from, Len(str))
    ELSE SubSeq(str, from, m.at - 1) \o number_map(SubSeq(str, m.at, m.end - 1))
         \o WholeWordsFrom(str, m.end)
WholeWordsFrom(str, from) ==
    WholeWordsNext(str, from,
        NextMatch(remaining_spoken_re, str, from,
                  [i \in from..(Len(str) + 1) |-> EndsOf(<<Try(remaining_spoken_re, i)>>, str)]))
WholeWordsReplaced(str) == WholeWordsFrom(str, 1)

\* C15 (as claimed): after the second pass every whole-word occurrence of a number word
\* zero..twenty of the (lower-cased, single-spaced) text stands replaced by the word's digit
\* string, also next to punctuation and with several different number words in the text,
\* and nothing else is replaced.
C15_EveryNumberWordReplaced ==
    convert_pc = "pass2" => converted_text = WholeWordsReplaced(Join(Split(Lower(spoken_text))))

\* a single digit and n or more further single digits, whitespace in between
DigitsApart(n) == Cat(<<ReDigit, RepFrom(Cat(<<Plus(ReSpace), ReDigit>>), n)>>)
\* the text the final pass starts from
BeforeDigitPass == SecondPass(FirstPass(spoken_text))

\* the runs of more than n single digits separated by whitespace, left to right
SingleDigitRuns(n, str) == FindAll(Cat(<<WordB, DigitsApart(n), WordB>>), str)

\* C16, on the runs that the claim (4 or more digits) and the comment at line 340 (5+
\* digits) both cover: the final pass compacts every run of 5 or more single digits
\* separated by whitespace into one contiguous digit string, that is, the digits of every
\* such run of the text the pass starts from stand together in the text returned, and no
\* such run is left in it.
C16_EveryRunCompacted ==
    Converted_returned =>
        /\ \A k \in 1..Len(SingleDigitRuns(4, BeforeDigitPass)) :
              Contains(converted_text, RemoveChars(SingleDigitRuns(4, BeforeDigitPass)[k], Whitespace))
        /\ SingleDigitRuns(4, converted_text) = <<>>

\* two calls of _extract_with_regex on text have returned earlier_result and regex_result
CalledTwice == calls >= 2

\* C17: two calls of _extract_with_regex on the same text return identical output in
\* every field of the result (customer, interaction with created_at, confidence map).
C17_SameOutputTwice == CalledTwice => regex_result = earlier_result

\* C18: the empty string is a valid input: extract_customer_data("") returns a result, with or
\* without a client and whatever the service answers, in which full_name, phone, address,
\* city, locality and summary are empty strings and all six confidences are 0.0.
C18_EmptyTextEmptyResult ==
    (pc = "done" /\ text = "") =>
        /\ result.customer =
              [full_name |-> "", phone |-> "", address |-> "", city |-> "", locality |-> ""]
        /\ result.interaction.summary = ""
        /\ result.confidence_scores =
              [name |-> 0, phone |-> 0, address |-> 0, city |-> 0, locality |-> 0, summary |-> 0]
C18_Witness ==
    /\ pc = "done" /\ text = ""
    /\ openai_client /\ reply \in WellFormedReplies /\ ReplyValue("full_name") = "Amit Verma"
    /\ result.customer.full_name = ""
    /\ result.confidence_scores.name = 0

\* a dict whose sections are dicts of strings (a section may be missing)
SectionOfStrings(sec) ==
    sec.ty = "missing" \/ (sec.ty = "dict" /\ \A key \in DOMAIN sec.d : sec.d[key].ty = "str")
WellTyped(d) == SectionOfStrings(d.customer) /\ SectionOfStrings(d.interaction)
\* the value of a key of a section, lower-cased and trimmed; "" when the key is missing
Normal(d, section, key) ==
    IF d[section].ty = "missing" \/ key \notin DOMAIN d[section].d THEN ""
    ELSE Strip(Lower(d[section].d[key].v))
\* the customer loop of compare_results has run on well-typed arguments
CustomerCompared == compare_pc \in {"customer", "returned"} /\ WellTyped(actual) /\ WellTyped(expected)

\* C19 (as claimed): the customer check passes if and only if every customer field
\* (full_name, phone, address, city, locality) that expected gives with a non-empty value
\* has the same value in actual after lower-casing and trimming.
C19_CustomerCheckAllFields ==
    CustomerCompared =>
        (customer_match <=>
            \A field \in CustomerFieldSet :
                Normal(expected, "customer", field) # ""
                    => Normal(actual, "customer", field) = Normal(expected, "customer", field))

\* C20: on well-typed arguments compare_results returns true if and only if the customer
\* check passed and the lower-cased, trimmed actual summary equals the expected summary or
\* contains it as a substring (expected in actual, never actual in expected).
C20_PassedIffBothChecks ==
    (compare_pc = "returned" /\ WellTyped(actual) /\ WellTyped(expected)) =>
        (passed <=>
            /\ customer_match
            /\ \/ Normal(actual, "interaction", "summary") = Normal(expected, "interaction", "summary")
               \/ Contains(Normal(actual, "interaction", "summary"),
                           Normal(expected, "interaction", "summary")))
C20_Witness ==
    /\ compare_pc = "returned"
    /\ WellTyped(actual) /\ WellTyped(expected)
    /\ customer_match /\ ~passed
    /\ Normal(actual, "interaction", "summary") = "demo and next steps"
    /\ Normal(expected, "interaction", "summary") = "discussed demo and next steps"

(***************************************************************************)
(* calculate_confidence                                                    *)
(***************************************************************************)
\* whether actual holds a map of numbers with at least one entry
HasScores(d) ==
    /\ d.confidence_scores.ty = "dict"
    /\ DOMAIN d.confidence_scores.d # {}
    /\ \A k \in DOMAIN d.confidence_scores.d : IsNumber(d.confidence_scores.d[k])
ScoreTotal(d) == SumOver(d.confidence_scores.d, DOMAIN d.confidence_scores.d)
ScoreCount(d) == Cardinality(DOMAIN d.confidence_scores.d)
Distance(a, b) == IF a < b THEN b - a ELSE a - b

\* C21 as stated: every value calculate_confidence returns for actual is the same whatever
\* expected is, and it is the average of the values of actual's confidence map, 0.0 when
\* actual has no confidence map.
C21_AverageOfActual ==
    \A k \in 1..Len(scorings) :
       /\ scorings[k].value = scorings[1].value
       /\ actual.confidence_scores.ty = "missing" => scorings[k].value = 0
       /\ HasScores(actual) => scorings[k].value * ScoreCount(actual) = ScoreTotal(actual)

\* C21 as amended: every value calculate_confidence returns for actual is the same whatever
\* expected is, and it is the hundredth nearest to the average of the values of actual's
\* confidence map, 0.0 when actual has no confidence map or one that cannot be averaged.
C21_RoundedAverageOfActual ==
    \A k \in 1..Len(scorings) :
       /\ scorings[k].value = scorings[1].value
       /\ ~HasScores(actual) => scorings[k].value = 0
       /\ HasScores(actual) =>
             2 * Distance(scorings[k].value * ScoreCount(actual), ScoreTotal(actual)) <= ScoreCount(actual)

\* actual was scored against two different expected values whose own maps average differently
C21_Witness ==
    /\ Len(scorings) = 2
    /\ HasScores(actual) /\ ScoreTotal(actual) % ScoreCount(actual) # 0
    /\ HasScores(scorings[1].expected) /\ HasScores(scorings[2].expected)
    /\ ScoreTotal(scorings[1].expected) # ScoreTotal(scorings[2].expected)
    /\ scorings[1].value > 0

(***************************************************************************)
(* run_evaluation                                                          *)
(***************************************************************************)
PassedOutcomes(outcomes) == { k \in 1..Len(outcomes) : outcomes[k].passed }

\* C22: run_evaluation returns one outcome per case of the corpus, in the order of the
\* corpus, passed_tests is the number of outcomes whose passed flag is true, failed_tests
\* is total_tests - passed_tests and accuracy is passed_tests / total_tests * 100; the
\* computation of the report gives 80.0 for 4 passing cases out of 5.
C22_OneOutcomePerCase ==
    eval_pc = "returned" =>
       /\ Len(report.results) = Len(self_test_cases)
       /\ \A k \in 1..Len(self_test_cases) :
             /\ report.results[k].id = self_test_cases[k].id
             /\ report.results[k].expected = self_test_cases[k].expected
       /\ report.total_tests = Len(self_test_cases)
       /\ report.passed_tests = Cardinality(PassedOutcomes(report.results))
       /\ report.failed_tests = report.total_tests - report.passed_tests
       /\ report.accuracy.num * report.total_tests = report.passed_tests * 100 * report.accuracy.den
       /\ Report(report.results, 4, 5).accuracy.num = 80 * Report(report.results, 4, 5).accuracy.den

\* the run on the corpus of the constructor returned: cases 1 and 3 pass, accuracy 40.0
C22_Witness ==
    /\ eval_pc = "returned"
    /\ report.total_tests = 5
    /\ PassedOutcomes(report.results) = {1, 3}
    /\ report.accuracy.num = 40 * report.accuracy.den
    /\ report.results[5].timestamp > report.results[1].extracted.interaction.created_at

\* whether compare_results(actual, expected) runs into an exception
CompareRaises(a, e) ==
    \/ CustomerLoop(a, e) = "raise"
    \/ GetLowerStrip(a, "interaction", "summary").raised
    \/ GetLowerStrip(e, "interaction", "summary").raised

(* The service call                                                        *)
(***************************************************************************)
\* C24: a service call that never responds cannot stall extraction: the call is bounded
\* by a timeout and extract_customer_data eventually returns, whatever the service does.
C24_ExtractionReturns == (pc = "llm") ~> (pc = "done")

(***************************************************************************)
(* Concurrent calls                                                        *)
(***************************************************************************)
SameFields(a, b) ==
    /\ a.customer = b.customer
    /\ a.interaction.summary = b.interaction.summary
    /\ a.confidence_scores = b.confidence_scores

\* C25: whatever the interleaving of the calls, each call returns the customer fields, the
\* summary and the confidences it returns when it runs alone, and the gazetteer and the
\* pattern table are never modified after initialization.
C25_CallsAreIndependent ==
    /\ self_indian_cities = indian_cities
    /\ self_locality_patterns = locality_patterns
    /\ \A c \in Callers : call_pc[c] = "done" => SameFields(call_result[c], call_alone[c])

\* a call on one text returned while a call on the other text was between its blocks
C25_Witness ==
    \E c, d \in Callers :
       /\ call_pc[c] = "done" /\ call_pc[d] \in {"begun", "city", "locality", "llm"}
       /\ call_text[c] # call_text[d]
       /\ call_result[c].customer.city # ""
       /\ call_result[c].customer.locality # ""
       /\ SameFields(call_result[c], call_alone[c])

(***************************************************************************)
(* The corpus                                                              *)
(***************************************************************************)
SameText(a, b) == Strip(Lower(a)) = Strip(Lower(b))

\* C26: for the input of the second corpus case the pipeline yields full_name Sarah Johnson,
\* phone 9876543210, city Mumbai and locality Bandra with a summary containing "pricing
\* options", and the case passes compare_results against its expected record.
C26_SarahJohnsonCasePasses ==
    (pc = "done" /\ text = corpus_case_2.input) =>
       /\ SameText(result.customer.full_name, "Sarah Johnson")
       /\ result.customer.phone = "9876543210"
       /\ SameText(result.customer.city, "Mumbai")
       /\ SameText(result.customer.locality, "Bandra")
       /\ Contains(Lower(result.interaction.summary), "pricing options")
       /\ compare_results(AsDict(result), corpus_case_2.expected)

(***************************************************************************)
(* The frame of _convert_spoken_numbers                                    *)
(***************************************************************************)
\* a word that holds no digit and no number word as a whole word
PlainWord(w) == CharsOf(w) \cap DigitSet = {} /\ FindAll(remaining_spoken_re, Lower(w)) = <<>>

\* C27: _convert_spoken_numbers changes nothing but spoken number words and digit runs:
\* every other word of the input is a word of the output with the same characters and
\* casing, also a word that holds a number word as a substring only.
C27_OtherWordsUnchanged ==
    Converted_returned => \A w \in WordsOf(spoken_text) : PlainWord(w) => w \in WordsOf(converted_text)

(***************************************************************************)
(* The two extractors                                                      *)
(***************************************************************************)
SameExtraction(a, b) ==
    /\ a.customer.full_name = b.customer.full_name
    /\ a.customer.phone = b.customer.phone
    /\ a.customer.address = b.customer.address
    /\ a.customer.city = b.customer.city
    /\ a.customer.locality = b.customer.locality
    /\ a.interaction.summary = b.interaction.summary

\* C28: the extractor of the API (ExtractionView.extract_customer_data) and the extractor
\* graded by EvaluationManager (DataExtractor._extract_with_regex) return the same
\* full_name, phone, address, city, locality and summary for every input text.
C28_ExtractorsAgree ==
    Extracted => SameExtraction(view_extract_customer_data(text, now), regex_result)

(***************************************************************************)
(* The evaluator's run                                                     *)
(***************************************************************************)
RecordedAsError(r) == ~r.passed /\ r.confidence = Zero /\ r.error # JNull
AtLeast70(score) == score.num * 10 >= score.den * 7
\* the body of a response of status 200 that response.json() decodes and compare_results
\* grades: none of the reads of compare_results raises
GradableBody(test_case, response) ==
    /\ ~response.json.raised
    /\ FirstRaised(RunnerReads(test_case.expected, response.json.value)) = 0
\* one result per request made, for the cases in their order; all of them once returned
OnePerCaseInOrder ==
    /\ Len(runner_results) = Len(responses)
    /\ \A k \in 1..Len(runner_results) : runner_results[k].test_id = load_test_cases[k].id
    /\ runner_pc = "returned" =>
          Len(runner_results) = Len(load_test_cases) /\ self_test_results = runner_results

\* C29 (as claimed): run_all_tests produces exactly one result per loaded test case, in
\* order, and never aborts: a case whose request raises or returns a status other than
\* 200 is recorded with passed = false, confidence = 0.0 and a non-null error; a case with
\* a 200 response has error = null and passed true exactly when overall_score >= 0.7.
C29_Every200IsGraded ==
    /\ OnePerCaseInOrder
    /\ \A k \in 1..Len(runner_results) :
          IF responses[k].raises \/ responses[k].status_code # 200
          THEN RecordedAsError(runner_results[k])
          ELSE /\ runner_results[k].error = JNull
               /\ runner_results[k].passed <=> AtLeast70(runner_results[k].comparison.overall_score)

\* C29 (amended): the same, except that a 200 response whose body response.json() cannot
\* decode or compare_results cannot grade is recorded like a request that raises; the other
\* 200 responses have error = null and passed true exactly when overall_score >= 0.7.
C29_EveryGradable200IsGraded ==
    /\ OnePerCaseInOrder
    /\ \A k \in 1..Len(runner_results) :
          IF \/ responses[k].raises
             \/ responses[k].status_code # 200
             \/ ~GradableBody(load_test_cases[k], responses[k])
          THEN RecordedAsError(runner_results[k])
          ELSE /\ runner_results[k].error = JNull
               /\ runner_results[k].passed <=> AtLeast70(runner_results[k].comparison.overall_score)
C29_Witness ==
    /\ runner_pc = "returned"
    /\ responses[1].raises
    /\ ~responses[2].raises /\ responses[2].status_code = 500
    /\ responses[3].status_code = 200 /\ ~GradableBody(load_test_cases[3], responses[3])
    /\ self_test_results[3].error # JNull
    /\ self_test_results[4].passed
    /\ self_test_results[4].confidence.num * 10 = self_test_results[4].confidence.den * 7
    /\ self_test_results[5].error = JNull /\ ~self_test_results[5].passed
    /\ self_test_results[1].timestamp = isoformat(0)
    /\ self_test_results[5].timestamp = isoformat(5)

(***************************************************************************)
(* The rows of extracted_data                                              *)
(***************************************************************************)
\* C30: under any interleaving of /api/transcribe and /api/extract requests, every
\* extracted_data row written by extract_data has a transcription_id that refers to the
\* transcription whose text that request extracted from, never to the transcription
\* another client inserted later.
C30_RowRefersToOwnTranscription ==
    \A k \in 1..Len(extracted_data) :
        client_transcription[extract_client[k]] # JNull
            => extracted_data[k].transcription_id = client_transcription[extract_client[k]]

====
